---- MODULE Spec2Model ----
(***************************************************************************)
(* Stellar: depot market reconciliation (services/depots.py), the restock  *)
(* task state machine (services/restocks.py) and the Companion API         *)
(* accounts and poll worker (services/capi).                               *)
(*                                                                         *)
(* All handlers run on one asyncio event loop: a handler runs without      *)
(* interruption from one await to the next, and at an await any other      *)
(* handler may run.  Each action below is one such uninterrupted segment.  *)
(* Awaits after which a handler touches no modelled state any more (the    *)
(* sheet pushes, the closing of a thread) end the handler in the model.    *)
(*                                                                         *)
(* A market is reduced to its tritium good, the only good the services     *)
(* read: tritium = FALSE stands for a market that lists no tritium.        *)
(***************************************************************************)
EXTENDS Integers, Sequences, FiniteSets

VARIABLES carriers, bridges, restocks, handlers,
          data, calls, result, cache, worker, now

depot_vars == <<carriers, bridges, restocks, handlers>>

capi_vars == <<data, calls, result, cache, worker, now>>

vars == <<carriers, bridges, restocks, handlers,
          data, calls, result, cache, worker, now>>

---------------------------------------------------------------------------
(* Bounds of the model *)

MaxLevel == 2
MaxTime == 2
MaxTasks == 2
MaxHandlers == 2
MaxUsers == 1
MaxHaulers == 2
MaxAccounts == 2
MaxTokens == 1
MaxCalls == 2
MaxClock == 4
MaxSkew == 1
MaxGoods == 2
MaxAmount == 1
MaxRows == 2
MaxRetries == 7
MaxQuarters == 4
MaxOff == 1

(* Stage enum (common/enums/stage.py); None is Python's None *)
None == "None"
PENDING == "Pending"
UNDERWAY == "Underway"
COMPLETE == "Complete"
ABORTED == "Aborted"

NoPrice == -1

CarrierNames == {"ABC-123"}
BridgeNames == {"Bridge"}
Stations == CarrierNames \cup BridgeNames \cup {"XYZ-000"}
Systems == {"Sol", "Colonia"}
Times == 0..MaxTime
Users == 1..MaxUsers
Volunteers == 1..MaxHaulers
Handlers == DOMAIN handlers

NoTritium == [tritium |-> FALSE, stock |-> 0, price |-> 0, demand |-> 0]

Selling(q, p) == [tritium |-> TRUE, stock |-> q, price |-> p, demand |-> 0]

Buying(q) == [tritium |-> TRUE, stock |-> 0, price |-> 0, demand |-> q]

(* The markets an update can carry *)
(* Tonnages are counted in units of a fifth of the largest allocation; an  *)
(* update reports one of these stock levels                                *)
StockLevels == {2 * q : q \in 0..MaxLevel}

Markets ==
    {NoTritium, Buying(1)} \cup {Selling(q, 1) : q \in StockLevels}

(* A handler that is not suspended inside one of the modelled coroutines *)
IdleHandler ==
    [pc |-> "idle", station |-> "", system |-> "", market |-> NoTritium,
     timestamp |-> 0, required |-> 0, close |-> FALSE, message |-> 0,
     user |-> 0, accepted |-> FALSE, goods |-> <<>>, depot |-> 0,
     rows |-> <<>>]

---------------------------------------------------------------------------
(* Pure helpers *)

(* Depot.tritium: the tritium good of the market, if it lists one *)
tritium(depot) == depot.market.tritium

(* find returning closed tasks as well *)
find_closed(registry, callsign, message) ==
    {m \in 1..Len(registry) :
        /\ (callsign # "" => registry[m].carrier = callsign)
        /\ (message # 0 => m = message)}

(* _Restocks.find(callsign, message): the open tasks that match.  The      *)
(* registry is a Python set, so any matching task may be the one returned; *)
(* COMPLETE and ABORTED tasks are skipped (both include flags default to   *)
(* False and no caller sets them).  "" and 0 stand for an omitted argument.*)
find(registry, callsign, message) ==
    {m \in 1..Len(registry) :
        /\ (callsign # "" => registry[m].carrier = callsign)
        /\ registry[m].stage # COMPLETE
        /\ registry[m].stage # ABORTED
        /\ (message # 0 => m = message)}

(* delivered >= target * 0.8 (the float product agrees with 4*target/5 for *)
(* every target the carriers can hold)                                     *)
satisfied(delivered, target) == 5 * delivered >= 4 * target

(* list.remove: drops the first occurrence *)
RECURSIVE remove(_, _)
remove(haulers, user) ==
    IF haulers = <<>> THEN <<>>
    ELSE IF Head(haulers) = user THEN Tail(haulers)
    ELSE <<Head(haulers)>> \o remove(Tail(haulers), user)

contains(haulers, user) == \E i \in 1..Len(haulers) : haulers[i] = user

(* self.bridges.find(station) or self.carriers.find(station), for a known  *)
(* station                                                                 *)
find_depot(station) ==
    IF station \in BridgeNames THEN bridges[station] ELSE carriers[station]

(* update_depot, the three writes *)
update_depot(depot, system, market, timestamp) ==
    [depot EXCEPT !.market = market, !.system = system,
                  !.last_update = timestamp]

(* A handler slot that can take the next call (slots are interchangeable,  *)
(* the lowest free one is used)                                            *)
Free(h) ==
    /\ handlers[h].pc = "idle"
    /\ \A k \in Handlers : k < h => handlers[k].pc # "idle"

(* The handler h stops: it returned, or an exception ended its task *)
Finish(h) == handlers' = [handlers EXCEPT ![h] = IdleHandler]

(* No handler is suspended inside one of the modelled coroutines *)
Quiescent == \A h \in Handlers : handlers[h].pc = "idle"

(* Tasks being created: their thread is being written *)
Writing == {k \in Handlers : handlers[k].pc = "write_task"}

---------------------------------------------------------------------------
(* RestockService *)

(* close_restock up to its first await; depot is the carrier record the    *)
(* caller holds.  restock_status is cleared before the two assertions.     *)
close_restock(name, depot, abort) ==
    LET found == find(restocks, name, 0) IN
    /\ carriers' = [carriers EXCEPT ![name] =
                        [depot EXCEPT !.restock_status = None]]
    /\ IF ~tritium(depot) \/ found = {}
       THEN restocks' = restocks
       ELSE \E m \in found :
              restocks' = [restocks EXCEPT
                  ![m].stage = IF abort THEN ABORTED ELSE COMPLETE,
                  ![m].ended = TRUE,
                  ![m].sell_price = IF depot.market.price = 0 THEN NoPrice
                                    ELSE depot.market.price]

(* try_restock computing the target anew from the stock at every update *)
evaluate_recomputed(h, name, depot) ==
    IF depot.restock_status = None
    THEN IF depot.market.stock > depot.reserve_tritium
         THEN /\ carriers' = [carriers EXCEPT ![name] = depot]
              /\ UNCHANGED restocks
              /\ Finish(h)
         ELSE \* _new_restock: status set, then await write_task
              /\ Len(restocks) + Cardinality(Writing) < MaxTasks
              /\ carriers' = [carriers EXCEPT ![name] =
                                 [depot EXCEPT !.restock_status = PENDING]]
              /\ UNCHANGED restocks
              /\ handlers' = [handlers EXCEPT ![h] =
                     [IdleHandler EXCEPT !.pc = "write_task",
                          !.station = name,
                          !.required = depot.allocated_space - depot.market.stock]]
    ELSE LET found == find(restocks, name, 0) IN
         /\ carriers' = [carriers EXCEPT ![name] = depot]
         /\ IF found = {}
            THEN \* assert restock fails
                 /\ UNCHANGED restocks
                 /\ Finish(h)
            ELSE \E m \in found :
                 LET raw == depot.market.stock
                              - (depot.allocated_space - restocks[m].required)
                     target == restocks[m].required + raw * (-1)
                     delivered == IF raw < 0 THEN 0 ELSE raw
                 IN \* _update_restock: both fields set, then await update_task;
                    \* of the locals only the 80% test is used afterwards
                    /\ restocks' = [restocks EXCEPT ![m].delivered = delivered,
                                                    ![m].required = target]
                    /\ handlers' = [handlers EXCEPT ![h] =
                           [IdleHandler EXCEPT !.pc = "update_task",
                                !.station = name,
                                !.close = satisfied(delivered, target)]]

(* try_restock past its three early returns, up to its first await: a new *)
(* task for a carrier without restock_status, else the update of its task  *)
evaluate(h, name, depot) ==
    IF depot.restock_status = None
    THEN IF depot.market.stock > depot.reserve_tritium
         THEN /\ carriers' = [carriers EXCEPT ![name] = depot]
              /\ UNCHANGED restocks
              /\ Finish(h)
         ELSE \* _new_restock: status set, then await write_task
              /\ Len(restocks) + Cardinality(Writing) < MaxTasks
              /\ carriers' = [carriers EXCEPT ![name] =
                                 [depot EXCEPT !.restock_status = PENDING]]
              /\ UNCHANGED restocks
              /\ handlers' = [handlers EXCEPT ![h] =
                     [IdleHandler EXCEPT !.pc = "write_task",
                          !.station = name,
                          !.required = depot.allocated_space - depot.market.stock]]
    ELSE LET found == find(restocks, name, 0) IN
         /\ carriers' = [carriers EXCEPT ![name] = depot]
         /\ IF found = {}
            THEN \* assert restock fails
                 /\ UNCHANGED restocks
                 /\ Finish(h)
            ELSE \E m \in found :
                 LET raw == depot.market.stock
                              - (depot.allocated_space - restocks[m].required)
                     target == IF raw < 0 THEN restocks[m].required + raw * (-1)
                               ELSE restocks[m].required
                     delivered == IF raw < 0 THEN 0 ELSE raw
                 IN \* _update_restock: both fields set, then await update_task;
                    \* of the locals only the 80% test is used afterwards
                    /\ restocks' = [restocks EXCEPT ![m].delivered = delivered,
                                                    ![m].required = target]
                    /\ handlers' = [handlers EXCEPT ![h] =
                           [IdleHandler EXCEPT !.pc = "update_task",
                                !.station = name,
                                !.close = satisfied(delivered, target)]]

(* try_restock without its test for a buy order *)
try_restock_selling(h, name, depot) ==
    IF ~depot.active_depot \/ ~tritium(depot)
    THEN /\ carriers' = [carriers EXCEPT ![name] = depot]
         /\ UNCHANGED restocks
         /\ Finish(h)
    ELSE evaluate(h, name, depot)

(* try_restock up to its first await, run by handler h on the carrier      *)
(* record depot (already holding the values update_depot wrote)            *)
try_restock(h, name, depot) ==
    IF ~depot.active_depot \/ ~tritium(depot) \/ depot.market.demand > 0
    THEN /\ carriers' = [carriers EXCEPT ![name] = depot]
         /\ UNCHANGED restocks
         /\ Finish(h)
    ELSE evaluate(h, name, depot)

(* _new_restock after write_task returned the thread id *)
WriteTaskReturn(h) ==
    /\ handlers[h].pc = "write_task"
    /\ restocks' = Append(restocks,
           [carrier |-> handlers[h].station,
            required |-> handlers[h].required,
            initial |-> handlers[h].required,
            delivered |-> 0,
            sell_price |-> NoPrice,
            haulers |-> <<>>,
            stage |-> PENDING,
            ended |-> FALSE])
    /\ Finish(h)
    /\ UNCHANGED <<carriers, bridges>>

(* try_restock after _update_restock returned: the 80% test on its locals *)
UpdateTaskReturn(h) ==
    /\ handlers[h].pc = "update_task"
    /\ IF handlers[h].close
       THEN close_restock(handlers[h].station,
                          carriers[handlers[h].station], FALSE)
       ELSE UNCHANGED <<carriers, restocks>>
    /\ Finish(h)
    /\ UNCHANGED bridges

(* _can_assign_task: raises when the task is not open, else the toggle test *)
can_assign_task(message, user, accepted) ==
    /\ find(restocks, "", message) # {}
    /\ ~(accepted /\ contains(restocks[message].haulers, user))
    /\ ~(~accepted /\ ~contains(restocks[message].haulers, user))

(* _on_hauler_update with the stage set to UNDERWAY whatever haulers holds *)
on_hauler_update_underway(h, message, user, accepted) ==
    LET task == restocks[message]
        joined == IF accepted THEN Append(task.haulers, user)
                  ELSE remove(task.haulers, user)
    IN /\ restocks' = [restocks EXCEPT
              ![message].haulers = joined,
              ![message].stage = UNDERWAY]
       /\ handlers' = [handlers EXCEPT ![h] =
              [IdleHandler EXCEPT !.pc = "update_stage", !.message = message]]

(* _on_hauler_update up to its await of update_stage *)
on_hauler_update(h, message, user, accepted) ==
    LET task == restocks[message]
        joined == IF accepted THEN Append(task.haulers, user)
                  ELSE remove(task.haulers, user)
    IN /\ restocks' = [restocks EXCEPT
              ![message].haulers = joined,
              ![message].stage = IF joined # <<>> THEN UNDERWAY ELSE PENDING]
       /\ handlers' = [handlers EXCEPT ![h] =
              [IdleHandler EXCEPT !.pc = "update_stage", !.message = message]]

(* _on_hauler_update after update_stage returned: status_change.fire with   *)
(* the stage the task has now; DepotService's subscriber stores it in the  *)
(* carrier (depots.py 161-163)                                             *)
UpdateStageReturn(h) ==
    /\ handlers[h].pc = "update_stage"
    /\ LET task == restocks[handlers[h].message] IN
       carriers' = [carriers EXCEPT ![task.carrier].restock_status = task.stage]
    /\ Finish(h)
    /\ UNCHANGED <<restocks, bridges>>

(* RestockService.restock_status: the stage of the open task found, if any *)
restock_status(name) ==
    IF find(restocks, name, 0) = {} THEN {None}
    ELSE {restocks[m].stage : m \in find(restocks, name, 0)}

---------------------------------------------------------------------------
(* Commands of the chat bot *)

(* /restock close: Slash.close.  "Bad Task" when no open task is found.    *)
SlashClose(name, abort) ==
    /\ find(restocks, name, 0) # {}
    /\ close_restock(name, carriers[name], abort)
    /\ UNCHANGED <<bridges, handlers>>

(* update_hauler up to its first await: False (nothing touched, no await)  *)
(* when _can_assign_task refuses, else _on_hauler_update                   *)
update_hauler(h, message, user, accepted) ==
    IF can_assign_task(message, user, accepted)
    THEN on_hauler_update(h, message, user, accepted)
    ELSE UNCHANGED <<restocks, handlers>>

(* /restock hauler: Slash.hauler -> update_hauler on the open task found *)
SlashHauler(h, name, user, accepted) ==
    /\ Free(h)
    /\ \E m \in find(restocks, name, 0) : update_hauler(h, m, user, accepted)
    /\ UNCHANGED <<carriers, bridges>>

(* RestockView.restock_accept / restock_withdraw up to the await of        *)
(* send_message: _can_use is asked first (it raises for a closed task);    *)
(* a refusal is answered and changes nothing                               *)
Button(h, message, user, accepted) ==
    /\ Free(h)
    /\ message \in 1..Len(restocks)
    /\ IF can_assign_task(message, user, accepted)
       THEN handlers' = [handlers EXCEPT ![h] =
                [IdleHandler EXCEPT !.pc = "send_message", !.message = message,
                     !.user = user, !.accepted = accepted]]
       ELSE UNCHANGED handlers
    /\ UNCHANGED <<carriers, bridges, restocks>>

(* The button handler after send_message returned: hauler_update.fire runs *)
(* _on_hauler_update, which raises when the task is closed by now or when  *)
(* list.remove does not find the user                                      *)
SendMessageReturn(h) ==
    /\ handlers[h].pc = "send_message"
    /\ LET message == handlers[h].message
           user == handlers[h].user
           accepted == handlers[h].accepted
       IN IF \/ find(restocks, "", message) = {}
             \/ ~accepted /\ ~contains(restocks[message].haulers, user)
          THEN Finish(h) /\ UNCHANGED restocks
          ELSE on_hauler_update(h, message, user, accepted)
    /\ UNCHANGED <<carriers, bridges>>

(* /deploy update: the edits of state, reserve and capacity *)
DeployUpdate(name, state, reserve, capacity) ==
    /\ carriers' = [carriers EXCEPT ![name].active_depot = state,
                                    ![name].reserve_tritium = reserve,
                                    ![name].allocated_space = capacity]
    /\ carriers' # carriers
    /\ UNCHANGED <<bridges, restocks, handlers>>

---------------------------------------------------------------------------
(* DepotService *)

(* DepotService.pull, lines 170-171: every carrier's restock_status is     *)
(* taken from the registry.  The sheet is taken to hold what memory holds, *)
(* and the command is run while no handler holds a carrier across an await *)
(* (pull replaces the carrier objects).                                    *)
Pull ==
    /\ Quiescent
    /\ \E status \in [CarrierNames -> {None, PENDING, UNDERWAY}] :
         /\ \A c \in CarrierNames : status[c] \in restock_status(c)
         /\ carriers' = [c \in CarrierNames |->
                            [carriers[c] EXCEPT !.restock_status = status[c]]]
    /\ carriers' # carriers
    /\ UNCHANGED <<bridges, restocks, handlers>>

(* DepotService.verify, one iteration of its loop over the carriers *)
Verify(h, name) ==
    /\ Free(h)
    /\ try_restock(h, name, carriers[name])
    /\ UNCHANGED bridges

(* DepotService.listener up to its first await.  A bridge is looked up     *)
(* before a carrier; an unknown station or an older timestamp returns.     *)
listener(h, station, system, market, timestamp) ==
    /\ Free(h)
    /\ IF station \in BridgeNames
       THEN IF timestamp < bridges[station].last_update
            THEN UNCHANGED depot_vars
            ELSE /\ bridges' = [bridges EXCEPT ![station] =
                        update_depot(bridges[station], bridges[station].system,
                                     market, timestamp)]
                 /\ UNCHANGED <<carriers, restocks, handlers>>
       ELSE IF station \notin CarrierNames
            THEN UNCHANGED depot_vars
       ELSE IF timestamp < carriers[station].last_update
            THEN UNCHANGED depot_vars
       ELSE /\ UNCHANGED bridges
            /\ IF carriers[station].system # system
               THEN \* await edsm.system(system)
                    /\ handlers' = [handlers EXCEPT ![h] =
                           [IdleHandler EXCEPT !.pc = "edsm_system",
                                !.station = station, !.system = system,
                                !.market = market, !.timestamp = timestamp]]
                    /\ UNCHANGED <<carriers, restocks>>
               ELSE try_restock(h, station,
                        update_depot(carriers[station], carriers[station].system,
                                     market, timestamp))

(* DepotService.listener after edsm.system returned: a System, or None for *)
(* a system EDSM does not know, which fails the assertion                  *)
SystemReturn(h, known) ==
    /\ handlers[h].pc = "edsm_system"
    /\ UNCHANGED bridges
    /\ IF known
       THEN try_restock(h, handlers[h].station,
                update_depot(carriers[handlers[h].station], handlers[h].system,
                             handlers[h].market, handlers[h].timestamp))
       ELSE /\ Finish(h)
            /\ UNCHANGED <<carriers, restocks>>

(* DepotService.edsm_update, one iteration of its loop, for a carrier or a *)
(* bridge: the overview is applied when it is newer than the depot         *)
edsm_update(h, station, system, market, timestamp) ==
    /\ Free(h)
    /\ IF station \in BridgeNames
       THEN IF timestamp <= bridges[station].last_update
            THEN UNCHANGED depot_vars
            ELSE /\ bridges' = [bridges EXCEPT ![station] =
                        update_depot(bridges[station], system, market, timestamp)]
                 /\ UNCHANGED <<carriers, restocks, handlers>>
       ELSE /\ station \in CarrierNames
            /\ IF timestamp <= carriers[station].last_update
               THEN UNCHANGED depot_vars
               ELSE /\ UNCHANGED bridges
                    /\ try_restock(h, station,
                           update_depot(carriers[station], system, market,
                                        timestamp))

(* DepotService.depots: the carriers, then the bridges *)
depots == <<"ABC-123", "Bridge">>

(* The overviews EDSM returns: a market, a system and an update time, an   *)
(* overview without update time, or a failure (the request is refused, the *)
(* response lacks a field, the system is not known to EDSM)                *)
Overviews == {"ok", "none", "raise"}

(* DepotService.edsm_update up to the await of the first overview *)
edsm_pass(h) ==
    /\ Free(h)
    /\ handlers' = [handlers EXCEPT ![h] =
           [IdleHandler EXCEPT !.pc = "overview", !.depot = 1]]
    /\ UNCHANGED <<carriers, bridges, restocks>>

(* The loop of edsm_update goes on with the next depot, or ends and awaits *)
(* the two pushes                                                          *)
next_depot(h) ==
    handlers' = [handlers EXCEPT ![h] =
        IF handlers[h].depot < Len(depots)
        THEN [handlers[h] EXCEPT !.depot = @ + 1]
        ELSE [handlers[h] EXCEPT !.pc = "flush"]]

(* edsm_update after edsm.overview returned or raised; the market lists no *)
(* tritium, so try_restock returns at its first test (push = False)        *)
OverviewReturn(h, outcome, system, timestamp) ==
    /\ handlers[h].pc = "overview"
    /\ UNCHANGED restocks
    /\ LET station == depots[handlers[h].depot] IN
       IF outcome = "raise"
       THEN Finish(h) /\ UNCHANGED <<carriers, bridges>>
       ELSE IF outcome = "none" \/ timestamp <= find_depot(station).last_update
       THEN next_depot(h) /\ UNCHANGED <<carriers, bridges>>
       ELSE /\ next_depot(h)
            /\ IF station \in BridgeNames
               THEN /\ bridges' = [bridges EXCEPT ![station] =
                           update_depot(bridges[station], system, NoTritium,
                                        timestamp)]
                    /\ UNCHANGED carriers
               ELSE /\ carriers' = [carriers EXCEPT ![station] =
                           update_depot(carriers[station], system, NoTritium,
                                        timestamp)]
                    /\ UNCHANGED bridges

(* edsm_update after RESTOCK_SERVICE.push and self.push returned *)
FlushReturn(h) ==
    /\ handlers[h].pc = "flush"
    /\ Finish(h)
    /\ UNCHANGED <<carriers, bridges, restocks>>

---------------------------------------------------------------------------
(* The firehose (external/eddn/monitor.py): a commodity message carries    *)
(* the snapshot of a station's market, which is validated as a whole       *)

GoodNames == {"tritium", "water", "pesticides"}

Amounts == 0..MaxAmount

(* Good(name, {price: buyPrice, quantity: stock},                          *)
(*      {price: sellPrice, quantity: demand})                              *)
(* The stations of the messages buy no commodity but tritium *)
Goods ==
    {good \in [name : GoodNames,
               stock : [price : Amounts, quantity : Amounts],
               demand : [price : Amounts, quantity : Amounts]] :
        good.name # "tritium" => good.demand = [price |-> 0, quantity |-> 0]}

(* The snapshots of a message: a station lists a commodity once *)
RECURSIVE Listings(_)
Listings(n) ==
    IF n = 0 THEN {<<>>}
    ELSE {Append(market, good) : market \in Listings(n - 1), good \in Goods}

Snapshots ==
    {market \in UNION {Listings(n) : n \in 1..MaxGoods} :
        \A i, j \in 1..Len(market) : i < j => market[i].name # market[j].name}

(* _CARRIER.match(stationName): the callsigns among the station names *)
is_carrier(station) == station \in CarrierNames \cup {"XYZ-000"}

(* any((quantity, price)) *)
trading(side) == side.quantity # 0 \/ side.price # 0

(* The issues without the test for a good sold for free *)
issues_sold(good, carrier) ==
    LET buying == trading(good.demand)
        selling == trading(good.stock)
    IN (IF buying /\ good.demand.price = 0
        THEN <<"Buying for free.">> ELSE <<>>)
       \o (IF buying /\ carrier /\ good.demand.quantity = 0
           THEN <<"Buying without demand.">> ELSE <<>>)
       \o (IF buying /\ selling /\ carrier
           THEN <<"Buying and selling simultaneously.">> ELSE <<>>)
       \o (IF ~(buying \/ selling)
           THEN <<"Trading but not buying or selling.">> ELSE <<>>)

(* The issues the validation loop finds for one good *)
issues(good, carrier) ==
    LET buying == trading(good.demand)
        selling == trading(good.stock)
    IN (IF buying /\ good.demand.price = 0
        THEN <<"Buying for free.">> ELSE <<>>)
       \o (IF buying /\ carrier /\ good.demand.quantity = 0
           THEN <<"Buying without demand.">> ELSE <<>>)
       \o (IF selling /\ good.stock.price = 0
           THEN <<"Selling for free.">> ELSE <<>>)
       \o (IF buying /\ selling /\ carrier
           THEN <<"Buying and selling simultaneously.">> ELSE <<>>)
       \o (IF ~(buying \/ selling)
           THEN <<"Trading but not buying or selling.">> ELSE <<>>)

(* The validation loop of _commodity: the lines added to the warning; a    *)
(* good named pesticides is passed over                                    *)
RECURSIVE validation(_, _)
validation(market, carrier) ==
    IF market = <<>> THEN <<>>
    ELSE LET good == Head(market) IN
         (IF good.name = "pesticides" \/ issues(good, carrier) = <<>> THEN <<>>
          ELSE <<good.name>> \o issues(good, carrier))
         \o validation(Tail(market), carrier)

(* The market as the depots read it: Depot.tritium takes the first good    *)
(* named tritium                                                           *)
RECURSIVE depot_market(_)
depot_market(market) ==
    IF market = <<>> THEN NoTritium
    ELSE IF Head(market).name = "tritium"
    THEN [tritium |-> TRUE, stock |-> Head(market).stock.quantity,
          price |-> Head(market).stock.price,
          demand |-> Head(market).demand.quantity]
    ELSE depot_market(Tail(market))

(* Monitor._process: the task of a commodity message is created *)
process(h, station, market, timestamp) ==
    /\ Free(h)
    /\ handlers' = [handlers EXCEPT ![h] =
           [IdleHandler EXCEPT !.pc = "commodity", !.station = station,
                !.goods = market, !.timestamp = timestamp]]
    /\ UNCHANGED <<carriers, bridges, restocks>>

(* DepotService.listener up to its first await, run by the task of the     *)
(* message that fired the commodity event                                  *)
fire(h, station, system, market, timestamp) ==
    IF station \in BridgeNames
    THEN /\ IF timestamp < bridges[station].last_update
            THEN UNCHANGED bridges
            ELSE bridges' = [bridges EXCEPT ![station] =
                     update_depot(bridges[station], bridges[station].system,
                                  market, timestamp)]
         /\ Finish(h)
         /\ UNCHANGED <<carriers, restocks>>
    ELSE IF station \notin CarrierNames
              \/ timestamp < carriers[station].last_update
    THEN Finish(h) /\ UNCHANGED <<carriers, bridges, restocks>>
    ELSE /\ UNCHANGED bridges
         /\ IF carriers[station].system # system
            THEN /\ handlers' = [handlers EXCEPT ![h] =
                        [IdleHandler EXCEPT !.pc = "edsm_system",
                             !.station = station, !.system = system,
                             !.market = market, !.timestamp = timestamp]]
                 /\ UNCHANGED <<carriers, restocks>>
            ELSE try_restock(h, station,
                     update_depot(carriers[station], carriers[station].system,
                                  market, timestamp))

(* Monitor._commodity: the snapshot is validated; a warning with any issue *)
(* ends the task, else the commodity event is fired                        *)
commodity(h, system) ==
    /\ handlers[h].pc = "commodity"
    /\ LET station == handlers[h].station
           market == handlers[h].goods
       IN IF validation(market, is_carrier(station)) # <<>>
          THEN Finish(h) /\ UNCHANGED <<carriers, bridges, restocks>>
          ELSE fire(h, station, system, depot_market(market),
                    handlers[h].timestamp)

---------------------------------------------------------------------------
(* The Companion API (services/capi): the accounts, their tokens and the   *)
(* poll worker.  The clock counts hours; an HTTP call returns within the   *)
(* hour it was made in.                                                    *)

UNLISTED == "Unlisted"
EXPIRED == "Expired"
SYNCING == "Syncing"

Interval == 2
TokenLife == 1

Accounts == 1..MaxAccounts
Tokens == 1..MaxTokens
Slots == 0..MaxCalls
Clock == 0..MaxClock

(* The carrier the upstream reports for an account: one owner per callsign *)
Fleet(account) ==
    IF account = 1 THEN "ABC-123"
    ELSE IF account = 2 THEN "EXT-002" ELSE "EXT-003"

Callsigns == {Fleet(a) : a \in Accounts}

AuthTypes == {"Frontier", "Epic"}

NoCache == -1

(* access_token = None *)
NoToken == <<>>

NoData ==
    [customer_id |-> 0, auth_type |-> "", commander |-> 0, carrier |-> None,
     discord_id |-> 0, access_token |-> NoToken, refresh_token |-> 0]

IdleCall ==
    [op |-> "idle", pc |-> "idle", info |-> 0, success |-> FALSE,
     sync |-> FALSE, fetched |-> NoData]

NoResult == [op |-> "", outcome |-> "", error |-> "", token |-> NoToken]

(* tasks counts the worker tasks that were created and have neither been   *)
(* cancelled nor ended                                                     *)
(* wait is the length in seconds of the sleep the worker is in, delays is  *)
(* _delays: the count of retries and, once a retry delay was taken, the    *)
(* time in seconds at which it ends; failures is the history of the        *)
(* connection errors as the clock tells it: how many came in a row and the *)
(* time in seconds at which the delay of the last one ended                *)
IdleWorker ==
    [pc |-> "delay", target |-> None, seen |-> 0, wake |-> 0, polled |-> None,
     tasks |-> 1, wait |-> 0, delays |-> <<0>>, failures |-> <<0>>]

(* The worker before CapiWorker.start *)
StoppedWorker == [IdleWorker EXCEPT !.pc = "stopped", !.tasks = 0]

(* The market of a polled carrier: it lists no tritium, so the market      *)
(* update it causes ends without a restock task                            *)
PolledMarkets == {NoTritium}

(* _Data.find_*: the entries that match; the code takes the first one that *)
(* the iteration over the set yields                                       *)
find_carrier(callsign) ==
    {i \in 1..Len(data) : data[i].carrier = callsign}

find_commander(commander) ==
    {i \in 1..Len(data) : data[i].commander = commander}

find_account(account) ==
    {i \in 1..Len(data) : data[i].customer_id = account}

get_carriers == {data[i].carrier : i \in 1..Len(data)} \ {None}

(* CapiService.get_state with the refresh token tested for the token *)
get_state_refresh(callsign) ==
    IF find_carrier(callsign) = {} THEN {UNLISTED}
    ELSE {IF data[i].refresh_token = 0 THEN EXPIRED ELSE SYNCING :
            i \in find_carrier(callsign)}

(* CapiService.get_state: the states it can return, one per entry that     *)
(* find_carrier can yield                                                  *)
get_state(callsign) ==
    IF find_carrier(callsign) = {} THEN {UNLISTED}
    ELSE {IF data[i].access_token = NoToken THEN EXPIRED ELSE SYNCING :
            i \in find_carrier(callsign)}

(* info.access_token[1] < datetime.now() *)
expired(token) == token[2] < now

FreeCall(k) ==
    /\ k >= 1
    /\ calls[k].pc = "idle"
    /\ \A j \in 1..MaxCalls : j < k => calls[j].pc # "idle"

(* A coroutine of a command suspends at an await *)
Suspend(k, call) ==
    /\ calls' = [calls EXCEPT ![k] = call]
    /\ UNCHANGED <<result, worker, cache, depot_vars>>

(* utils.sync_carrier: the cache entry, then the market update with the    *)
(* time of the call                                                        *)
sync_carrier(name, market) ==
    /\ cache' = [cache EXCEPT ![name] = now]
    /\ \E h \in Handlers :
         listener(h, name,
                  IF name \in CarrierNames THEN carriers[name].system ELSE "Sol",
                  market, now)

(* The seconds of an hour of the clock, and _DELAY in seconds *)
Hour == 3600
Delay == 60

(* CapiWorker._retry_delay: the delay in seconds and the new _delays; the  *)
(* clock counts hours, so the time in seconds is now * Hour                *)
retry_delay ==
    IF Len(worker.delays) = 2 /\ now * Hour - worker.delays[2] > 1 * 60^2
    THEN [wait |-> IF 5 < 3 * 60^2 THEN 5 ELSE 3 * 60^2, delays |-> <<0>>]
    ELSE LET wait_delay == IF 5 * 4^worker.delays[1] < 3 * 60^2
                           THEN 5 * 4^worker.delays[1] ELSE 3 * 60^2
         IN  [wait |-> wait_delay,
              delays |-> <<worker.delays[1] + 1, now * Hour + wait_delay>>]

(* _worker going on without its sleep *)
asleep_skipped(seconds, polled) ==
    [worker EXCEPT !.pc = "delay", !.wait = 0, !.polled = polled]

(* The connection errors in a row before this one: none when more than an *)
(* hour has passed since the delay of the last one ended                   *)
consecutive ==
    IF Len(worker.failures) = 2 /\ now * Hour - worker.failures[2] > Hour
    THEN 0
    ELSE worker.failures[1]

(* asyncio.sleep of the worker between two polls: a sleep of less than an  *)
(* hour ends within the hour of the clock, a longer one at the next hour   *)
(* after its end                                                           *)
asleep(seconds, polled) ==
    [worker EXCEPT !.pc = IF seconds < Hour THEN "delay" ELSE "interval",
                   !.wake = IF seconds < Hour THEN @
                            ELSE now + (seconds + Hour - 1) \div Hour,
                   !.wait = seconds, !.polled = polled]

(* CapiWorker._get_external / _oldest_carrier: the SYNCING carriers and    *)
(* the update time they are sorted by                                      *)
candidates == {c \in Callsigns : SYNCING \in get_state(c)}

last_update(c) ==
    IF c \in CarrierNames THEN carriers[c].last_update
    ELSE IF cache[c] = NoCache THEN now ELSE cache[c]

(* _oldest_carrier with the sort reversed *)
newest_carrier ==
    LET newest == {c \in candidates :
                     \A d \in candidates : last_update(c) >= last_update(d)}
    IN IF newest \cap CarrierNames # {} THEN newest \cap CarrierNames
       ELSE newest

(* The sort is stable: the internal carriers come before the external ones *)
oldest_carrier ==
    LET oldest == {c \in candidates :
                     \A d \in candidates : last_update(c) <= last_update(d)}
    IN IF oldest \cap CarrierNames # {} THEN oldest \cap CarrierNames
       ELSE oldest

(* CapiWorker._next_target up to its sleep, with the ValueError of an      *)
(* empty candidate list handled as _worker handles it                      *)
next_target(polled) ==
    IF candidates = {}
    THEN worker' = [pc |-> "interval", target |-> None, seen |-> 0,
                    wake |-> now + Interval, polled |-> polled,
                    tasks |-> worker.tasks, wait |-> Interval * Hour,
                    delays |-> worker.delays, failures |-> worker.failures]
    ELSE \E c \in oldest_carrier :
           worker' = [pc |-> "sleep", target |-> c, seen |-> last_update(c),
                      wake |-> last_update(c) + Interval, polled |-> polled,
                      tasks |-> worker.tasks,
                      wait |-> IF last_update(c) + Interval > now
                               THEN (last_update(c) + Interval - now) * Hour
                               ELSE 0,
                      delays |-> worker.delays,
                      failures |-> worker.failures]

(* CapiService.fleetcarrier up to its first await, for an account with a   *)
(* token                                                                   *)
fleetcarrier_call(i) ==
    [IdleCall EXCEPT !.op = "fleetcarrier", !.info = i,
         !.pc = IF expired(data[i].access_token) THEN "refresh" ELSE "query"]

(* _worker handling EpicFail as it handles a carrier that is gone *)
worker_resume_disable(outcome, error) ==
    /\ error = "ClientConnectionError" => worker.delays[1] < MaxRetries
    /\ calls' = [calls EXCEPT ![0] = IdleCall]
    /\ UNCHANGED result
    /\ IF outcome = "raise" /\ error # "EpicFail"
       THEN /\ worker' =
                 IF error = "ClientConnectionError"
                 THEN [asleep(retry_delay.wait, None) EXCEPT
                          !.delays = retry_delay.delays,
                          !.failures = <<consecutive + 1,
                                         now * Hour + retry_delay.wait>>]
                 ELSE IF error = "RefreshFail"
                 THEN asleep(Delay, None)
                 ELSE IF error = "CapiFail"
                 THEN asleep(Interval * Hour, None)
                 ELSE [worker EXCEPT !.pc = "dead", !.polled = None,
                                     !.tasks = @ - 1, !.wait = 0]
            /\ UNCHANGED <<cache, depot_vars>>
       ELSE IF outcome \in {"none", "raise"}
       THEN /\ worker' = asleep(Delay, None)
            /\ IF worker.target \in CarrierNames
               THEN /\ carriers' = [carriers EXCEPT
                           ![worker.target].active_depot = FALSE]
                    /\ UNCHANGED <<cache, bridges, restocks, handlers>>
               ELSE /\ cache' = [cache EXCEPT ![worker.target] = NoCache]
                    /\ UNCHANGED depot_vars
       ELSE /\ worker' = asleep(Delay, worker.target)
            /\ \E market \in PolledMarkets :
                 sync_carrier(worker.target, market)

(* _worker after CAPI_SERVICE.fleetcarrier returned or raised *)
worker_resume(outcome, error) ==
    /\ error = "ClientConnectionError" => worker.delays[1] < MaxRetries
    /\ calls' = [calls EXCEPT ![0] = IdleCall]
    /\ UNCHANGED result
    /\ IF outcome = "raise"
       THEN /\ worker' =
                 IF error = "ClientConnectionError"
                 THEN [asleep(retry_delay.wait, None) EXCEPT
                          !.delays = retry_delay.delays,
                          !.failures = <<consecutive + 1,
                                         now * Hour + retry_delay.wait>>]
                 ELSE IF error \in {"RefreshFail", "EpicFail"}
                 THEN asleep(Delay, None)
                 ELSE IF error = "CapiFail"
                 THEN asleep(Interval * Hour, None)
                 ELSE [worker EXCEPT !.pc = "dead", !.polled = None,
                                     !.tasks = @ - 1, !.wait = 0]
            /\ UNCHANGED <<cache, depot_vars>>
       ELSE IF outcome = "none"
       THEN /\ worker' = asleep(Delay, None)
            /\ IF worker.target \in CarrierNames
               THEN /\ carriers' = [carriers EXCEPT
                           ![worker.target].active_depot = FALSE]
                    /\ UNCHANGED <<cache, bridges, restocks, handlers>>
               ELSE /\ cache' = [cache EXCEPT ![worker.target] = NoCache]
                    /\ UNCHANGED depot_vars
       ELSE /\ worker' = asleep(Delay, worker.target)
            /\ \E market \in PolledMarkets :
                 sync_carrier(worker.target, market)

(* A coroutine returns or raises: the worker goes on, a command leaves its *)
(* result                                                                  *)
Return(k, op, outcome, error, token) ==
    IF k = 0
    THEN worker_resume(outcome, error)
    ELSE /\ calls' = [calls EXCEPT ![k] = IdleCall]
         /\ result' = [op |-> op, outcome |-> outcome, error |-> error,
                       token |-> token]
         /\ UNCHANGED <<worker, cache, depot_vars>>

(* CapiService.get_token up to its first await *)
get_token(k, commander) ==
    /\ FreeCall(k)
    /\ UNCHANGED <<data, now>>
    /\ IF find_commander(commander) = {}
       THEN Return(k, "get_token", "none", "", NoToken)
       ELSE \E i \in find_commander(commander) :
              IF data[i].access_token = NoToken
              THEN Return(k, "get_token", "none", "", NoToken)
              ELSE IF expired(data[i].access_token)
              THEN Suspend(k, [IdleCall EXCEPT !.op = "get_token",
                                   !.pc = "refresh", !.info = i])
              ELSE Return(k, "get_token", "token", "", data[i].access_token)

(* CapiService.fleetcarrier of a command (/deploy) up to its first await *)
fleetcarrier(k, callsign) ==
    /\ FreeCall(k)
    /\ UNCHANGED <<data, now>>
    /\ IF \A i \in find_carrier(callsign) : data[i].access_token = NoToken
       THEN Return(k, "fleetcarrier", "none", "", NoToken)
       ELSE \E i \in find_carrier(callsign) :
              /\ data[i].access_token # NoToken
              /\ Suspend(k, fleetcarrier_call(i))

(* _refresh_token after auth.get_refreshed_tokens returned or raised: the  *)
(* token endpoint answers with tokens ("ok"), with HTTP 401, for which     *)
(* _post_request raises RefreshFail ("unauthorized"), or with another      *)
(* failure status, for which it raises ClientResponseError ("error")       *)
refresh_token(k, outcome, token) ==
    /\ calls[k].pc = "refresh"
    /\ UNCHANGED now
    /\ LET i == calls[k].info IN
       IF outcome = "ok"
       THEN /\ data' = [data EXCEPT
                   ![i].access_token = <<token, now + TokenLife>>,
                   ![i].refresh_token = token]
            /\ Suspend(k, [calls[k] EXCEPT !.pc = "push", !.success = TRUE])
       ELSE IF outcome = "error"
       THEN /\ data' = [data EXCEPT ![i].access_token = NoToken]
            /\ Suspend(k, [calls[k] EXCEPT !.pc = "push", !.success = FALSE])
       ELSE /\ UNCHANGED data
            /\ Return(k, calls[k].op, "raise", "RefreshFail", NoToken)

(* _refresh_token after its push, and its caller up to the next await or   *)
(* the return                                                              *)
RefreshPushReturn(k) ==
    /\ calls[k].pc = "push"
    /\ UNCHANGED <<data, now>>
    /\ LET token == data[calls[k].info].access_token IN
       IF ~calls[k].success
       THEN Return(k, calls[k].op, "none", "", NoToken)
       ELSE IF calls[k].op = "get_token"
       THEN Return(k, "get_token", IF token = NoToken THEN "none" ELSE "token",
                   "", token)
       ELSE IF token = NoToken
       THEN \* info.access_token[0] with the token reset meanwhile
            Return(k, calls[k].op, "raise", "TypeError", NoToken)
       ELSE Suspend(k, [calls[k] EXCEPT !.pc = "query"])

(* CapiService.fleetcarrier keeping the carrier link on an empty payload *)
QueryReturn_linked(k, outcome) ==
    /\ calls[k].pc = "query"
    /\ calls[k].op = "fleetcarrier"
    /\ UNCHANGED now
    /\ LET i == calls[k].info IN
       IF outcome = "ok"
       THEN /\ UNCHANGED data
            /\ Return(k, "fleetcarrier", "response", "", NoToken)
       ELSE IF outcome = "empty"
       THEN /\ UNCHANGED data
            /\ Return(k, "fleetcarrier", "none", "", NoToken)
       ELSE IF outcome = "EpicFail"
       THEN /\ data' = [data EXCEPT ![i].access_token = NoToken]
            /\ Return(k, "fleetcarrier", "raise", outcome, NoToken)
       ELSE /\ UNCHANGED data
            /\ Return(k, "fleetcarrier", "raise", outcome, NoToken)

(* CapiService.fleetcarrier after query.fleetcarrier returned or raised    *)
(* (the pushes that follow touch nothing)                                  *)
QueryReturn(k, outcome) ==
    /\ calls[k].pc = "query"
    /\ calls[k].op = "fleetcarrier"
    /\ UNCHANGED now
    /\ LET i == calls[k].info IN
       IF outcome = "ok"
       THEN /\ UNCHANGED data
            /\ Return(k, "fleetcarrier", "response", "", NoToken)
       ELSE IF outcome = "empty"
       THEN /\ data' = [data EXCEPT ![i].carrier = None]
            /\ Return(k, "fleetcarrier", "none", "", NoToken)
       ELSE IF outcome = "EpicFail"
       THEN /\ data' = [data EXCEPT ![i].access_token = NoToken]
            /\ Return(k, "fleetcarrier", "raise", outcome, NoToken)
       ELSE \* CapiFail is raised again; TokenFail (HTTP 401) and
            \* ClientConnectionError are not caught
            /\ UNCHANGED data
            /\ Return(k, "fleetcarrier", "raise", outcome, NoToken)

QueryOutcomes ==
    {"ok", "empty", "EpicFail", "CapiFail", "TokenFail", "ClientConnectionError"}

TokenOutcomes == {"ok", "error", "unauthorized"}

(* CapiService.auth_account up to the await of auth.get_new_tokens *)
auth_account(k, discord, sync) ==
    /\ FreeCall(k)
    /\ UNCHANGED <<data, now>>
    /\ Suspend(k, [IdleCall EXCEPT !.op = "auth_account", !.pc = "new_tokens",
                       !.sync = sync, !.fetched.discord_id = discord])

(* auth_account after auth.get_new_tokens returned or raised; the account  *)
(* is the one that logged in                                               *)
NewTokensReturn(k, outcome, account, token) ==
    /\ calls[k].pc = "new_tokens"
    /\ UNCHANGED <<data, now>>
    /\ IF outcome = "ok"
       THEN Suspend(k, [calls[k] EXCEPT !.pc = "profile",
                !.fetched.customer_id = account,
                !.fetched.access_token = <<token, now + TokenLife>>,
                !.fetched.refresh_token = token])
       ELSE IF outcome = "error"
       THEN Return(k, "auth_account", "false", "", NoToken)
       ELSE Return(k, "auth_account", "raise", "RefreshFail", NoToken)

(* auth_account adding an entry whether or not the account has one *)
store_append(k, fetched) ==
    /\ data' = Append(data, fetched)
    /\ calls' = [calls EXCEPT ![k] = IdleCall]
    /\ result' = [op |-> "auth_account", outcome |-> "true", error |-> "",
                  token |-> NoToken]

(* auth_account, lines 227-250: the entry of the account is overwritten or *)
(* added, and true is returned after the push                              *)
store(k, fetched) ==
    /\ IF find_account(fetched.customer_id) = {}
       THEN data' = Append(data, fetched)
       ELSE \E i \in find_account(fetched.customer_id) :
              data' = [data EXCEPT ![i] = fetched]
    /\ calls' = [calls EXCEPT ![k] = IdleCall]
    /\ result' = [op |-> "auth_account", outcome |-> "true", error |-> "",
                  token |-> NoToken]

(* auth_account after decode_token, query.profile and query.fleetcarrier   *)
(* returned or raised: owns tells whether the account has a carrier        *)
ProfileReturn(k, outcome, auth_type, owns) ==
    /\ calls[k].pc = "profile"
    /\ UNCHANGED now
    /\ LET account == calls[k].fetched.customer_id
           fetched == [calls[k].fetched EXCEPT
                          !.auth_type = auth_type,
                          !.commander = account,
                          !.carrier = IF owns THEN Fleet(account) ELSE None]
       IN IF outcome \in {"EpicFail", "CapiFail"}
          THEN UNCHANGED data /\ Return(k, "auth_account", "false", "", NoToken)
          ELSE IF outcome # "ok"
          THEN UNCHANGED data
               /\ Return(k, "auth_account", "raise", outcome, NoToken)
          ELSE IF owns /\ calls[k].sync
          THEN /\ UNCHANGED <<data, result, worker>>
               /\ calls' = [calls EXCEPT ![k] =
                      [calls[k] EXCEPT !.pc = "sync", !.fetched = fetched]]
               /\ \E market \in PolledMarkets :
                    sync_carrier(Fleet(account), market)
          ELSE /\ store(k, fetched)
               /\ UNCHANGED <<worker, cache, depot_vars>>

(* auth_account after sync.fire returned *)
SyncReturn(k) ==
    /\ calls[k].pc = "sync"
    /\ store(k, calls[k].fetched)
    /\ UNCHANGED <<now, worker, cache, depot_vars>>

(* CapiService.update for an entry with a token and no carrier, after     *)
(* query.fleetcarrier returned the carrier the account owns by now         *)
update_carrier(i) ==
    /\ i \in 1..Len(data)
    /\ data[i].access_token # NoToken
    /\ data[i].carrier = None
    /\ data' = [data EXCEPT ![i].carrier = Fleet(data[i].customer_id)]
    /\ UNCHANGED <<calls, result, cache, worker, now, depot_vars>>

(* self._task and not self._task.done() *)
Running == worker.pc \notin {"stopped", "dead"}

(* The cache after the loop of CapiWorker.start *)
seeded ==
    [c \in Callsigns |->
       IF c \notin get_carriers THEN cache[c]
       ELSE IF c \in CarrierNames THEN carriers[c].last_update ELSE now]

(* CapiWorker.start without the test of the task *)
start_unguarded ==
    /\ UNCHANGED <<data, calls, result, now, depot_vars>>
    /\ cache' = seeded
    /\ worker' = [IdleWorker EXCEPT !.tasks = worker.tasks + 1,
                                         !.delays = worker.delays,
                                         !.failures = worker.failures]

(* CapiWorker.start: the created task runs _worker from its beginning at   *)
(* the next turn of the event loop                                         *)
start ==
    /\ UNCHANGED <<data, calls, result, now, depot_vars>>
    /\ IF Running
       THEN UNCHANGED <<worker, cache>>
       ELSE /\ cache' = seeded
            /\ worker' = [IdleWorker EXCEPT !.tasks = worker.tasks + 1,
                                         !.delays = worker.delays,
                                         !.failures = worker.failures]

(* CapiWorker.close: the cancelled task runs no statement of _worker any   *)
(* more, the call it awaited ends with CancelledError                      *)
close ==
    /\ UNCHANGED <<data, result, cache, now, depot_vars>>
    /\ IF ~Running
       THEN UNCHANGED <<worker, calls>>
       ELSE /\ worker' = [StoppedWorker EXCEPT !.tasks = worker.tasks - 1,
                                                !.delays = worker.delays,
                                                !.failures = worker.failures]
            /\ calls' = [calls EXCEPT ![0] = IdleCall]

(* _next_target after its sleep: the stalest carrier is looked up again    *)
(* and compared with the one slept for (a Carrier is the same object, a    *)
(* SimpleCarrier is compared by name and update time); on a match          *)
(* _worker calls CAPI_SERVICE.fleetcarrier                                 *)
WorkerWake ==
    /\ worker.pc = "sleep"
    /\ now >= worker.wake
    /\ UNCHANGED <<data, now>>
    /\ IF candidates = {}
       THEN next_target(None) /\ UNCHANGED <<calls, result, cache, depot_vars>>
       ELSE \E c \in oldest_carrier :
              IF /\ c = worker.target
                 /\ c \in CarrierNames \/ last_update(c) = worker.seen
              THEN /\ worker' = [worker EXCEPT !.pc = "poll", !.wait = 0]
                   /\ \E i \in find_carrier(c) :
                        /\ data[i].access_token # NoToken
                        /\ calls' = [calls EXCEPT ![0] = fleetcarrier_call(i)]
                   /\ UNCHANGED <<result, cache, depot_vars>>
              ELSE /\ next_target(None)
                   /\ UNCHANGED <<calls, result, cache, depot_vars>>

(* _worker after one of its sleeps between two polls *)
WorkerContinue ==
    /\ \/ worker.pc = "delay"
       \/ worker.pc = "interval" /\ now >= worker.wake
    /\ next_target(worker.polled)
    /\ UNCHANGED <<data, calls, result, cache, now, depot_vars>>

(* The firehose or a command brings a market of a carrier *)
OtherSource(c) ==
    /\ UNCHANGED <<data, calls, result, worker, now>>
    /\ \E market \in PolledMarkets :
         \/ sync_carrier(c, market)
         \/ /\ c \in CarrierNames
            /\ UNCHANGED cache
            /\ \E h \in Handlers :
                 listener(h, c, carriers[c].system, market, now)

(* EddnListener._commodity firing the commodity event for an internal      *)
(* carrier: the timestamp is the one the uploader wrote into the message   *)
Firehose(c, timestamp) ==
    /\ c \in CarrierNames
    /\ UNCHANGED capi_vars
    /\ \E h \in Handlers, market \in PolledMarkets :
         listener(h, c, carriers[c].system, market, timestamp)

(* An hour passes while no HTTP call is under way *)
Tick ==
    /\ now < MaxClock
    /\ \A k \in Slots : calls[k].pc = "idle"
    /\ now' = now + 1
    /\ UNCHANGED <<data, calls, result, cache, worker, depot_vars>>

---------------------------------------------------------------------------
(* The /market command (bot/misc/market.py) and the stock bracket *)

(* capacity in stock_bracket *)
capacity == 25000

(* _Market.bracket of a side that is not traded: the default "" *)
NoBracket == -1

(* The variant that reaches the top bracket only above three quarters *)
stock_bracket_above(amount) ==
    IF amount * 100 > capacity * 75 THEN 3
    ELSE IF amount * 100 >= capacity * 25 THEN 2
    ELSE IF amount > 0 THEN 1
    ELSE 0

(* stock_bracket: capacity * 0.75 and capacity * 0.25 are exact, the       *)
(* comparisons are made in hundredths                                      *)
stock_bracket(amount) ==
    IF amount * 100 >= capacity * 75 THEN 3
    ELSE IF amount * 100 >= capacity * 25 THEN 2
    ELSE IF amount > 0 THEN 1
    ELSE 0

(* The tonnages a user enters: the quarters of the capacity and the        *)
(* tonnages next to them                                                   *)
Tonnages ==
    {(k * capacity) \div 4 + d : k \in 0..MaxQuarters, d \in -MaxOff..MaxOff}

(* _Market.from_dict of {} *)
NoOrder == [price |-> 0, quantity |-> 0, bracket |-> NoBracket]

(* Market.market from the checks of the order to the await of the upload:  *)
(* the depot is one the user owns, the service is "None"; an order without *)
(* price, or a buy order without tonnage, is answered with a warning       *)
slash_market(h, carrier, tonnage, price, selling) ==
    /\ Free(h)
    /\ carrier \in CarrierNames
    /\ UNCHANGED <<carriers, bridges, restocks>>
    /\ IF price = 0 \/ (~selling /\ tonnage = 0)
       THEN UNCHANGED handlers
       ELSE LET tritium_market_data ==
                    [price |-> price, quantity |-> tonnage,
                     bracket |-> stock_bracket(tonnage)]
                new_tritium ==
                    [name |-> "tritium",
                     stock |-> IF selling THEN tritium_market_data ELSE NoOrder,
                     demand |-> IF selling THEN NoOrder ELSE tritium_market_data]
            IN  handlers' = [handlers EXCEPT ![h] =
                    [IdleHandler EXCEPT !.pc = "upload", !.station = carrier,
                         !.goods = <<new_tritium>>]]

(* eddn.upload.commodity returned: the user is told the outcome *)
UploadReturn(h) ==
    /\ handlers[h].pc = "upload"
    /\ Finish(h)
    /\ UNCHANGED <<carriers, bridges, restocks>>

---------------------------------------------------------------------------
(* The CAPI sheet and its loader (utils/sheets.py, storage/capi.py) *)

(* A cell as the values API renders it unformatted: a number, or a string; *)
(* the text of a number is its digits                                      *)
Number(text) == [type |-> "int", text |-> text]
Text(text) == [type |-> "str", text |-> text]

(* Empty string means a blank cell *)
Blank == Text("")

Digits == <<"1", "2">>

(* str.isdigit over the texts of the model *)
isdigit(text) == \E n \in 1..Len(Digits) : Digits[n] = text

(* int(value) of a string of digits *)
int(text) == CHOOSE n \in 1..Len(Digits) : Digits[n] = text

(* sheet[0]: the header row of the CAPI sheet *)
headers ==
    <<"Account", "Type", "Commander", "Carrier", "Discord", "Access Token",
      "Expiry", "Refresh Token">>

(* _CAPI_CHECKS in the order of the dict; a union with None allows a blank *)
CAPI_CHECKS ==
    << [key |-> "Account", type |-> "int", allow_none |-> FALSE, regex |-> None],
       [key |-> "Type", type |-> "str", allow_none |-> FALSE, regex |-> "Type"],
       [key |-> "Commander", type |-> "str", allow_none |-> FALSE,
        regex |-> None],
       [key |-> "Carrier", type |-> "str", allow_none |-> TRUE,
        regex |-> "Carrier"],
       [key |-> "Discord", type |-> "int", allow_none |-> FALSE, regex |-> None],
       [key |-> "Access Token", type |-> "str", allow_none |-> TRUE,
        regex |-> None],
       [key |-> "Expiry", type |-> "int", allow_none |-> TRUE, regex |-> None],
       [key |-> "Refresh Token", type |-> "str", allow_none |-> FALSE,
        regex |-> None] >>

(* regex.match over the texts of the model: "Xbox" is no service and "x"   *)
(* is no callsign                                                          *)
match(regex, text) ==
    IF regex = "Type" THEN text \in {"Frontier", "Steam", "Epic"}
    ELSE text \in Callsigns

implicit_cast(value, type) ==
    IF type = "int" /\ value.type = "str" /\ isdigit(value.text)
    THEN Number(value.text)
    ELSE value

(* headers.index(key), counted from 1; 0 when the key is no header *)
index(key) ==
    IF \E i \in 1..Len(headers) : headers[i] = key
    THEN CHOOSE i \in 1..Len(headers) : headers[i] = key
    ELSE 0

(* One turn of the loop of validate_row: "loaded", "none" (a blank that is *)
(* allowed), "invalid", or "IndexError" when the row has no such cell      *)
validate_cell(row, check) ==
    IF index(check.key) = 0 THEN "invalid"
    ELSE IF index(check.key) > Len(row) THEN "IndexError"
    ELSE LET value == row[index(check.key)]
             cast == implicit_cast(value, check.type)
         IN  IF value = Blank
             THEN (IF check.allow_none THEN "none" ELSE "invalid")
             ELSE IF cast.type # check.type THEN "invalid"
             ELSE IF check.regex # None /\ ~match(check.regex, cast.text)
             THEN "invalid"
             ELSE "loaded"

(* validate_row: the keys that were found invalid, unless a turn raised *)
validate_row(row) ==
    IF \E n \in 1..Len(CAPI_CHECKS) :
         validate_cell(row, CAPI_CHECKS[n]) = "IndexError"
    THEN [raised |-> "IndexError", invalid |-> {}]
    ELSE [raised |-> "",
          invalid |-> {CAPI_CHECKS[n].key : n \in
                         {m \in 1..Len(CAPI_CHECKS) :
                            validate_cell(row, CAPI_CHECKS[m]) = "invalid"}}]

(* data[key] of a row that validate_row accepted *)
loaded(row, key) ==
    LET check == CAPI_CHECKS[CHOOSE n \in 1..Len(CAPI_CHECKS) :
                               CAPI_CHECKS[n].key = key]
        value == implicit_cast(row[index(key)], check.type)
    IN  IF row[index(key)] = Blank THEN None
        ELSE IF check.type = "int" THEN int(value.text)
        ELSE value.text

(* _load_row: the account of a row, or the error the row raises *)
load_row(row) ==
    LET checked == validate_row(row) IN
    IF checked.raised # "" THEN [raised |-> checked.raised, info |-> NoData]
    ELSE IF checked.invalid # {} THEN [raised |-> "ValueError", info |-> NoData]
    ELSE IF (row[index("Access Token")] = Blank)
              # (row[index("Expiry")] = Blank)
    THEN [raised |-> "ValueError", info |-> NoData]
    ELSE [raised |-> "",
          info |->
            [customer_id |-> loaded(row, "Account"),
             auth_type |-> loaded(row, "Type"),
             commander |-> loaded(row, "Commander"),
             carrier |-> loaded(row, "Carrier"),
             discord_id |-> loaded(row, "Discord"),
             access_token |->
               IF row[index("Access Token")] = Blank THEN NoToken
               ELSE <<loaded(row, "Access Token"), loaded(row, "Expiry")>>,
             refresh_token |-> loaded(row, "Refresh Token")]]

(* The loop of load_data over the rows below the header: a ValueError is   *)
(* logged and the row left out, any other error leaves the loop            *)
RECURSIVE load_rows(_)
load_rows(rows) ==
    IF rows = <<>> THEN [raised |-> "", data |-> <<>>]
    ELSE LET first == load_row(Head(rows))
             rest == load_rows(Tail(rows))
         IN  IF first.raised \notin {"", "ValueError"}
             THEN [raised |-> first.raised, data |-> <<>>]
             ELSE IF rest.raised # "" THEN rest
             ELSE IF first.raised = "ValueError" THEN rest
             ELSE [raised |-> "", data |-> <<first.info>> \o rest.data]

(* The row the values API returns for a row of the sheet: the blank cells  *)
(* at its end are left out                                                 *)
RECURSIVE values(_)
values(row) ==
    IF row = <<>> THEN <<>>
    ELSE IF row[Len(row)] = Blank THEN values(SubSeq(row, 1, Len(row) - 1))
    ELSE row

(* The row push_data writes for an account *)
new_row(account, type, carrier, paired) ==
    << Number(Digits[account]), Text(type), Text("cmdr"),
       IF carrier THEN Text(Fleet(account)) ELSE Blank, Number("1"),
       IF paired THEN Text("token") ELSE Blank,
       IF paired THEN Number("1") ELSE Blank, Text("refresh") >>

PushedRows ==
    {new_row(account, type, carrier, paired) :
       account \in Accounts, type \in AuthTypes, carrier \in BOOLEAN,
       paired \in BOOLEAN}

(* A row of the sheet after somebody edited the row of an account by hand: *)
(* a letter for the account, an unknown service, a token without its       *)
(* expiry, the refresh token cleared, every cell cleared                   *)
EditedRows ==
    UNION {LET row == new_row(account, "Frontier", TRUE, TRUE) IN
           { [row EXCEPT ![index("Account")] = Text("x")],
             [row EXCEPT ![index("Type")] = Text("Xbox")],
             [row EXCEPT ![index("Expiry")] = Blank],
             [row EXCEPT ![index("Refresh Token")] = Blank],
             [i \in 1..Len(headers) |-> Blank] } : account \in Accounts}

Rows == PushedRows \cup EditedRows

(* The rows below the header: no two rows for one account *)
Sheets ==
    {sheet \in UNION {[1..n -> Rows] : n \in 0..MaxRows} :
       \A i, j \in 1..Len(sheet) :
         i < j => sheet[i][index("Account")] # sheet[j][index("Account")]}

(* GoogleSheet.pull: the rows of the sheet as the values API returns them *)
sheet_values(sheet) == [i \in 1..Len(sheet) |-> values(sheet[i])]

(* main: the program starts and fetches the spreadsheet *)
main(h, sheet) ==
    /\ Free(h)
    /\ result = NoResult
    /\ handlers' = [handlers EXCEPT ![h].pc = "pull",
                                    ![h].rows = sheet_values(sheet)]
    /\ UNCHANGED <<carriers, bridges, restocks, capi_vars>>

(* CapiService.pull(lazy=True) in main: load_data loads the rows that were *)
(* fetched and the accounts are replaced by what it returns; an error that *)
(* leaves load_data ends main                                              *)
pull(h) ==
    /\ handlers[h].pc = "pull"
    /\ LET load == load_rows(handlers[h].rows) IN
       IF load.raised = ""
       THEN /\ data' = load.data
            /\ result' = [op |-> "pull", outcome |-> "return", error |-> "",
                          token |-> NoToken]
       ELSE /\ result' = [op |-> "pull", outcome |-> "raise",
                          error |-> load.raised, token |-> NoToken]
            /\ UNCHANGED data
    /\ Finish(h)
    /\ UNCHANGED <<carriers, bridges, restocks, calls, cache, worker, now>>

---------------------------------------------------------------------------
(* The system *)

Capacity == 5
Reserve == 2

InitDepots ==
    /\ carriers = [c \in CarrierNames |->
           [market |-> Selling(2 * MaxLevel, 1), system |-> "Sol",
            last_update |-> 0, reserve_tritium |-> Reserve,
            allocated_space |-> Capacity, active_depot |-> TRUE,
            restock_status |-> None]]
    /\ bridges = [b \in BridgeNames |->
           [market |-> Selling(2 * MaxLevel, 1), system |-> "Sol",
            last_update |-> 0]]
    /\ restocks = <<>>

(* The restock state machine: one market update or hauler command at a     *)
(* time, suspended at its awaits while the other commands run              *)
(* No account is registered and the worker is not started *)
InitCapi ==
    /\ data = <<>>
    /\ calls = [k \in Slots |-> IdleCall]
    /\ result = NoResult
    /\ cache = [c \in Callsigns |-> NoCache]
    /\ worker = StoppedWorker
    /\ now = 0

Init ==
    /\ InitDepots
    /\ InitCapi
    /\ handlers = [h \in {1} |-> IdleHandler]

Next ==
    \/ /\ \E h \in Handlers, c \in CarrierNames, m \in Markets :
            listener(h, c, carriers[c].system, m, carriers[c].last_update)
       /\ UNCHANGED capi_vars
    \/ /\ \E h \in Handlers : WriteTaskReturn(h)
       /\ UNCHANGED capi_vars
    \/ /\ \E h \in Handlers : UpdateTaskReturn(h)
       /\ UNCHANGED capi_vars
    \/ /\ \E h \in Handlers : UpdateStageReturn(h)
       /\ UNCHANGED capi_vars
    \/ /\ \E c \in CarrierNames, abort \in BOOLEAN : SlashClose(c, abort)
       /\ UNCHANGED capi_vars
    \/ /\ \E h \in Handlers, c \in CarrierNames, u \in Users, a \in BOOLEAN :
            SlashHauler(h, c, u, a)
       /\ UNCHANGED capi_vars
    \/ /\ \E c \in CarrierNames, state \in BOOLEAN :
            DeployUpdate(c, state, carriers[c].reserve_tritium,
                         carriers[c].allocated_space)
       /\ UNCHANGED capi_vars
    \/ /\ \E h \in Handlers, c \in CarrierNames : Verify(h, c)
       /\ UNCHANGED capi_vars
    \/ /\ Pull
       /\ UNCHANGED capi_vars

Spec == Init /\ [][Next]_vars

(* Concurrent handlers: the firehose starts one task per message, so       *)
(* market updates of any station, system and timestamp overlap with each   *)
(* other and with the commands; one restock task is followed               *)
AsyncMarkets == {Selling(0, 1), Selling(2 * MaxLevel, 1)}

InitAsync ==
    /\ InitDepots
    /\ InitCapi
    /\ handlers = [h \in 1..MaxHandlers |-> IdleHandler]

(* At most one task is created or being created *)
OneTask == Len(restocks) + Cardinality(Writing) <= 1

NextAsync ==
    \/ /\ \E h \in Handlers, st \in Stations, sy \in Systems,
            m \in AsyncMarkets, t \in Times :
            listener(h, st, sy, m, t) /\ OneTask'
       /\ UNCHANGED capi_vars
    \/ /\ \E h \in Handlers, known \in BOOLEAN :
            SystemReturn(h, known) /\ OneTask'
       /\ UNCHANGED capi_vars
    \/ /\ \E h \in Handlers, st \in CarrierNames \cup BridgeNames,
            sy \in Systems, m \in AsyncMarkets, t \in Times :
            edsm_update(h, st, sy, m, t) /\ OneTask'
       /\ UNCHANGED capi_vars
    \/ /\ \E h \in Handlers : WriteTaskReturn(h)
       /\ UNCHANGED capi_vars
    \/ /\ \E h \in Handlers : UpdateTaskReturn(h)
       /\ UNCHANGED capi_vars
    \/ /\ \E h \in Handlers : UpdateStageReturn(h)
       /\ UNCHANGED capi_vars
    \/ /\ \E c \in CarrierNames, abort \in BOOLEAN : SlashClose(c, abort)
       /\ UNCHANGED capi_vars
    \/ /\ \E h \in Handlers, c \in CarrierNames, u \in Users, a \in BOOLEAN :
            SlashHauler(h, c, u, a)
       /\ UNCHANGED capi_vars

SpecAsync == InitAsync /\ [][NextAsync]_vars

(* Calls in a row: every market update, verification and edit of a carrier *)
(* runs to its end before the next one starts                              *)
Reserves == {Reserve, Capacity - 1}

NextSeq ==
    \/ /\ \E h \in Handlers, c \in CarrierNames, m \in Markets :
            listener(h, c, carriers[c].system, m, carriers[c].last_update)
       /\ UNCHANGED capi_vars
    \/ /\ \E h \in Handlers : WriteTaskReturn(h)
       /\ UNCHANGED capi_vars
    \/ /\ \E h \in Handlers : UpdateTaskReturn(h)
       /\ UNCHANGED capi_vars
    \/ /\ \E h \in Handlers, c \in CarrierNames : Verify(h, c)
       /\ UNCHANGED capi_vars
    \/ /\ \E c \in CarrierNames, state \in BOOLEAN, reserve \in Reserves :
            /\ Quiescent
            /\ DeployUpdate(c, state, reserve, carriers[c].allocated_space)
       /\ UNCHANGED capi_vars

SpecSeq == Init /\ [][NextSeq]_vars

(* Market updates of a carrier whose allocated space is edited in between, *)
(* also while an update is being answered                                  *)
Capacities == {Capacity - 1, Capacity, Capacity + 1}

NextEdits ==
    \/ /\ \E h \in Handlers, c \in CarrierNames, m \in Markets :
            listener(h, c, carriers[c].system, m, carriers[c].last_update)
       /\ UNCHANGED capi_vars
    \/ /\ \E h \in Handlers : WriteTaskReturn(h)
       /\ UNCHANGED capi_vars
    \/ /\ \E h \in Handlers : UpdateTaskReturn(h)
       /\ UNCHANGED capi_vars
    \/ /\ \E c \in CarrierNames, space \in Capacities :
            DeployUpdate(c, carriers[c].active_depot,
                         carriers[c].reserve_tritium, space)
       /\ UNCHANGED capi_vars

SpecEdits == Init /\ [][NextEdits]_vars

(* Volunteers of one task: the buttons under the task's message and the   *)
(* /restock hauler command, pressed while other presses are being answered *)
NextHaulers ==
    \/ /\ \E h \in Handlers, c \in CarrierNames, m \in AsyncMarkets :
            /\ listener(h, c, carriers[c].system, m, carriers[c].last_update)
            /\ OneTask'
       /\ UNCHANGED capi_vars
    \/ /\ \E h \in Handlers : WriteTaskReturn(h)
       /\ UNCHANGED capi_vars
    \/ /\ \E h \in Handlers : UpdateTaskReturn(h)
       /\ UNCHANGED capi_vars
    \/ /\ \E h \in Handlers, m \in 1..MaxTasks, u \in Volunteers, a \in BOOLEAN :
            Button(h, m, u, a)
       /\ UNCHANGED capi_vars
    \/ /\ \E h \in Handlers : SendMessageReturn(h)
       /\ UNCHANGED capi_vars
    \/ /\ \E h \in Handlers : UpdateStageReturn(h)
       /\ UNCHANGED capi_vars
    \/ /\ \E h \in Handlers, c \in CarrierNames, u \in Volunteers, a \in BOOLEAN :
            SlashHauler(h, c, u, a)
       /\ UNCHANGED capi_vars
    \/ /\ \E c \in CarrierNames, abort \in BOOLEAN : SlashClose(c, abort)
       /\ UNCHANGED capi_vars

SpecHaulers == InitAsync /\ [][NextHaulers]_vars

(* The accounts service: commands that ask for a token, authorise an       *)
(* account or query a carrier, over every registry of accounts the sheet   *)
(* can hold (one entry per account, one owner per carrier)                 *)
Entries ==
    {[customer_id |-> a, auth_type |-> "Frontier", commander |-> a,
      carrier |-> c, discord_id |-> 1, access_token |-> t,
      refresh_token |-> 1] :
        a \in Accounts, c \in Callsigns \cup {None}, t \in {NoToken, <<1, 0>>}}

Registries ==
    {r \in UNION {[1..n -> Entries] : n \in 0..MaxAccounts} :
        /\ \A i \in 1..Len(r) : r[i].carrier \in {None, Fleet(r[i].customer_id)}
        /\ \A i, j \in 1..Len(r) : i < j => r[i].customer_id < r[j].customer_id}

InitAccounts ==
    /\ InitDepots
    /\ handlers = [h \in {1} |-> IdleHandler]
    /\ data \in Registries
    /\ calls = [k \in Slots |-> IdleCall]
    /\ result = NoResult
    /\ cache = [c \in Callsigns |-> NoCache]
    /\ worker = StoppedWorker
    /\ now = 0

NextAccounts ==
    \/ \E k \in 1..MaxCalls, commander \in Accounts : get_token(k, commander)
    \/ \E k \in 1..MaxCalls, callsign \in Callsigns : fleetcarrier(k, callsign)
    \/ \E k \in 1..MaxCalls, outcome \in TokenOutcomes, token \in Tokens :
         refresh_token(k, outcome, token)
    \/ \E k \in 1..MaxCalls : RefreshPushReturn(k)
    \/ \E k \in 1..MaxCalls, outcome \in QueryOutcomes : QueryReturn(k, outcome)
    \/ Tick

SpecAccounts == InitAccounts /\ [][NextAccounts]_vars

(* Authorisations, also of one account while another one of it is under    *)
(* way, starting from an empty registry                                    *)
(* The first member logs in with a Frontier account, the others with Epic *)
Login(discord) == IF discord = 1 THEN "Frontier" ELSE "Epic"

InitAuth ==
    /\ InitDepots
    /\ InitCapi
    /\ handlers = [h \in {1} |-> IdleHandler]

NextAuth ==
    \/ \E k \in 1..MaxCalls, discord \in Volunteers, sync \in BOOLEAN :
         auth_account(k, discord, sync)
    \/ \E k \in 1..MaxCalls, outcome \in TokenOutcomes, account \in Accounts,
         token \in Tokens :
         NewTokensReturn(k, outcome, account, token)
    \/ \E k \in 1..MaxCalls, outcome \in QueryOutcomes \ {"empty"},
         owns \in BOOLEAN :
         ProfileReturn(k, outcome, Login(calls[k].fetched.discord_id), owns)
    \/ \E k \in 1..MaxCalls : SyncReturn(k)

SpecAuth == InitAuth /\ [][NextAuth]_vars

(* The poll worker after CapiWorker.start, with every account SYNCING: the *)
(* cache holds the update time of the internal carriers and the time of    *)
(* the start for the others                                                *)
InitWorker ==
    /\ InitDepots
    /\ handlers = [h \in {1} |-> IdleHandler]
    /\ data = [a \in Accounts |->
                 [customer_id |-> a, auth_type |-> "Frontier", commander |-> a,
                  carrier |-> Fleet(a), discord_id |-> 1,
                  access_token |-> <<1, 1>>, refresh_token |-> 1]]
    /\ calls = [k \in Slots |-> IdleCall]
    /\ result = NoResult
    /\ now = 1
    /\ cache = [c \in Callsigns |->
                  IF c \in CarrierNames THEN carriers[c].last_update ELSE now]
    /\ worker = IdleWorker

NextWorker ==
    \/ WorkerContinue
    \/ WorkerWake
    \/ \E outcome \in TokenOutcomes, token \in Tokens :
         refresh_token(0, outcome, token)
    \/ RefreshPushReturn(0)
    \/ \E outcome \in QueryOutcomes : QueryReturn(0, outcome)
    \/ \E c \in Callsigns : OtherSource(c)
    \/ Tick

SpecWorker == InitWorker /\ [][NextWorker]_vars

(* The worker while every upstream call for the account of ABC-123 fails   *)
(* with a failure of that account (the refresh is refused, the token is    *)
(* rejected, the Epic login is incomplete) and the calls for the other     *)
(* accounts succeed.  Calls return, sleeps end and the hours pass.         *)
Failing(k) == data[calls[k].info].carrier = "ABC-123"

(* The worker is started at hour 1 with tokens that expire then or later;  *)
(* the external carriers were synchronised by a command before or are      *)
(* given the time of the start                                             *)
InitFailing ==
    /\ InitDepots
    /\ handlers = [h \in {1} |-> IdleHandler]
    /\ \E expiry \in [Accounts -> 1..Interval] :
         data = [a \in Accounts |->
                   [customer_id |-> a, auth_type |-> "Frontier",
                    commander |-> a, carrier |-> Fleet(a), discord_id |-> 1,
                    access_token |-> <<1, expiry[a]>>, refresh_token |-> 1]]
    /\ calls = [k \in Slots |-> IdleCall]
    /\ result = NoResult
    /\ now = 1
    /\ \E synced \in [Callsigns -> 0..1] :
         cache = [c \in Callsigns |->
                    IF c \in CarrierNames THEN carriers[c].last_update
                    ELSE synced[c]]
    /\ worker = IdleWorker

NextFailing ==
    \/ WorkerContinue
    \/ WorkerWake
    \/ \E outcome \in TokenOutcomes, token \in Tokens :
         /\ calls[0].pc = "refresh"
         /\ Failing(0) <=> outcome # "ok"
         /\ refresh_token(0, outcome, token)
    \/ RefreshPushReturn(0)
    \/ \E outcome \in {"ok", "EpicFail", "TokenFail"} :
         /\ calls[0].pc = "query"
         /\ Failing(0) <=> outcome # "ok"
         /\ QueryReturn(0, outcome)
    \/ Tick

SpecFailing ==
    /\ InitFailing
    /\ [][NextFailing]_vars
    /\ WF_vars(WorkerContinue)
    /\ WF_vars(WorkerWake)
    /\ WF_vars(\E outcome \in TokenOutcomes, token \in Tokens :
                 /\ calls[0].pc = "refresh"
                 /\ Failing(0) <=> outcome # "ok"
                 /\ refresh_token(0, outcome, token))
    /\ WF_vars(RefreshPushReturn(0))
    /\ WF_vars(\E outcome \in {"ok", "EpicFail", "TokenFail"} :
                 /\ calls[0].pc = "query"
                 /\ Failing(0) <=> outcome # "ok"
                 /\ QueryReturn(0, outcome))
    /\ SF_vars(Tick)

(* The worker while every upstream call succeeds.  The account of ABC-123  *)
(* was linked before the worker started; the other account owned no        *)
(* carrier then and is linked later, by the daily update or by a new       *)
(* authorisation, early enough for a poll interval to pass before the      *)
(* clock of the model ends.  Calls return, sleeps end and the hours pass.  *)
InitLinked ==
    /\ InitDepots
    /\ handlers = [h \in {1} |-> IdleHandler]
    /\ \E expiry \in [Accounts -> 1..Interval] :
         data = [a \in Accounts |->
                   [customer_id |-> a, auth_type |-> "Frontier",
                    commander |-> a,
                    carrier |-> IF a = 1 THEN Fleet(a) ELSE None,
                    discord_id |-> 1,
                    access_token |-> <<1, expiry[a]>>, refresh_token |-> 1]]
    /\ calls = [k \in Slots |-> IdleCall]
    /\ result = NoResult
    /\ now = 1
    /\ cache = [c \in Callsigns |->
                  IF c = Fleet(1) THEN carriers[c].last_update ELSE NoCache]
    /\ worker = IdleWorker

InTime == now <= MaxClock - Interval

NextLinked ==
    \/ WorkerContinue
    \/ WorkerWake
    \/ \E token \in Tokens : refresh_token(0, "ok", token)
    \/ RefreshPushReturn(0)
    \/ QueryReturn(0, "ok")
    \/ \E i \in Accounts : InTime /\ update_carrier(i)
    \/ \E discord \in Volunteers : InTime /\ auth_account(1, discord, TRUE)
    \/ \E account \in Accounts \ {1}, token \in Tokens :
         NewTokensReturn(1, "ok", account, token)
    \/ ProfileReturn(1, "ok", "Frontier", TRUE)
    \/ SyncReturn(1)
    \/ Tick

SpecLinked ==
    /\ InitLinked
    /\ [][NextLinked]_vars
    /\ WF_vars(WorkerContinue)
    /\ WF_vars(WorkerWake)
    /\ WF_vars(\E token \in Tokens : refresh_token(0, "ok", token))
    /\ WF_vars(RefreshPushReturn(0))
    /\ WF_vars(QueryReturn(0, "ok"))
    /\ WF_vars(\E account \in Accounts \ {1}, token \in Tokens :
                 NewTokensReturn(1, "ok", account, token))
    /\ WF_vars(ProfileReturn(1, "ok", "Frontier", TRUE))
    /\ WF_vars(SyncReturn(1))
    /\ SF_vars(Tick)

(* The worker and the authorisations with an initial sync next to the      *)
(* firehose, whose uploaders have clocks up to MaxSkew hours ahead;        *)
(* upstream calls succeed                                                  *)
NextSkewed ==
    \/ WorkerContinue
    \/ WorkerWake
    \/ \E token \in Tokens : refresh_token(0, "ok", token)
    \/ RefreshPushReturn(0)
    \/ QueryReturn(0, "ok")
    \/ \E c \in CarrierNames, skew \in 0..MaxSkew : Firehose(c, now + skew)
    \/ \E discord \in Volunteers : auth_account(1, discord, TRUE)
    \/ \E account \in Accounts, token \in Tokens :
         NewTokensReturn(1, "ok", account, token)
    \/ ProfileReturn(1, "ok", "Frontier", TRUE)
    \/ SyncReturn(1)
    \/ Tick

SpecSkewed == InitWorker /\ [][NextSkewed]_vars

(* The firehose: the messages of the uploaders about the depots, one at a  *)
(* time, with the restock tasks they cause                                 *)
NextCommodity ==
    \/ /\ \E h \in Handlers, station \in CarrierNames \cup BridgeNames,
            market \in Snapshots :
            process(h, station, market, find_depot(station).last_update)
       /\ UNCHANGED capi_vars
    \/ /\ \E h \in Handlers : commodity(h, "Sol")
       /\ UNCHANGED capi_vars
    \/ /\ \E h \in Handlers : WriteTaskReturn(h)
       /\ UNCHANGED capi_vars
    \/ /\ \E h \in Handlers : UpdateTaskReturn(h)
       /\ UNCHANGED capi_vars

SpecCommodity == Init /\ [][NextCommodity]_vars

(* The passes over the depots that fetch the overviews of EDSM, started at *)
(* the launch and by the admin command                                     *)
NextPass ==
    \/ /\ \E h \in Handlers : edsm_pass(h)
       /\ UNCHANGED capi_vars
    \/ /\ \E h \in Handlers, outcome \in Overviews, system \in Systems,
            timestamp \in Times :
            OverviewReturn(h, outcome, system, timestamp)
       /\ UNCHANGED capi_vars
    \/ /\ \E h \in Handlers : FlushReturn(h)
       /\ UNCHANGED capi_vars

SpecPass == InitAsync /\ [][NextPass]_vars

(* The worker started and closed at any time: the accounts are registered  *)
(* and SYNCING, the worker is not started yet                              *)
InitLifecycle ==
    /\ InitDepots
    /\ handlers = [h \in {1} |-> IdleHandler]
    /\ data = [a \in Accounts |->
                 [customer_id |-> a, auth_type |-> "Frontier", commander |-> a,
                  carrier |-> Fleet(a), discord_id |-> 1,
                  access_token |-> <<1, 1>>, refresh_token |-> 1]]
    /\ calls = [k \in Slots |-> IdleCall]
    /\ result = NoResult
    /\ now = 1
    /\ cache = [c \in Callsigns |-> NoCache]
    /\ worker = StoppedWorker

NextLifecycle ==
    \/ start
    \/ close
    \/ WorkerContinue
    \/ WorkerWake
    \/ \E outcome \in TokenOutcomes, token \in Tokens :
         refresh_token(0, outcome, token)
    \/ RefreshPushReturn(0)
    \/ \E outcome \in QueryOutcomes : QueryReturn(0, outcome)
    \/ Tick

SpecLifecycle == InitLifecycle /\ [][NextLifecycle]_vars

(* The start of the program: nothing is loaded yet *)
InitLoad ==
    /\ InitDepots
    /\ handlers = [h \in {1} |-> IdleHandler]
    /\ data = <<>>
    /\ calls = [k \in Slots |-> IdleCall]
    /\ result = NoResult
    /\ cache = [c \in Callsigns |-> NoCache]
    /\ worker = StoppedWorker
    /\ now = 0

NextLoad ==
    \/ \E h \in Handlers, sheet \in Sheets : main(h, sheet)
    \/ \E h \in Handlers : pull(h)

SpecLoad == InitLoad /\ [][NextLoad]_vars

(* Users report the markets of their carriers with /market *)
NextBracket ==
    \/ \E h \in Handlers, carrier \in CarrierNames, tonnage \in Tonnages,
          price \in Amounts, selling \in BOOLEAN :
         slash_market(h, carrier, tonnage, price, selling) /\ UNCHANGED capi_vars
    \/ \E h \in Handlers : UploadReturn(h) /\ UNCHANGED capi_vars

SpecBracket == InitAsync /\ [][NextBracket]_vars



---------------------------------------------------------------------------
(* Market reconciliation *)

Holds(depot, system, market, timestamp) ==
    /\ depot.market = market
    /\ depot.system = system
    /\ depot.last_update = timestamp

(* C1: a listener call for a carrier with a timestamp older than the       *)
(* carrier's last_update leaves market, system and last_update as they are *)
(* and starts nothing; a call with a timestamp not older ends with market, *)
(* system and last_update replaced by the broadcast values, at once or     *)
(* when the system lookup it waits for returns.                            *)
StalenessGate ==
    [][/\ \A h \in Handlers, st \in CarrierNames,
            sy \in Systems, m \in AsyncMarkets, t \in Times :
            listener(h, st, sy, m, t) =>
               IF t < find_depot(st).last_update
               THEN /\ Holds(find_depot(st)', find_depot(st).system,
                             find_depot(st).market, find_depot(st).last_update)
                    /\ UNCHANGED <<restocks, handlers>>
               ELSE \/ handlers'[h].pc = "edsm_system"
                    \/ Holds(find_depot(st)', sy, m, t)
       /\ \A h \in Handlers, known \in BOOLEAN :
            SystemReturn(h, known) =>
               Holds(carriers'[handlers[h].station], handlers[h].system,
                     handlers[h].market, handlers[h].timestamp)
      ]_vars

(* C2: no step of any handler lowers the last_update of a depot *)
LastUpdateMonotonic ==
    [][\A st \in CarrierNames \cup BridgeNames :
          find_depot(st)'.last_update >= find_depot(st).last_update]_vars

---------------------------------------------------------------------------
(* Restock state machine *)

(* C3: once the operations run so far have finished, a carrier's           *)
(* restock_status is non-None exactly when the registry holds a PENDING or *)
(* UNDERWAY task for its callsign                                          *)
StatusTracksRegistry ==
    Quiescent =>
        \A c \in CarrierNames :
            carriers[c].restock_status # None <=> find(restocks, c, 0) # {}

(* C4: no callsign has two open (PENDING or UNDERWAY) tasks *)
OneOpenRestock ==
    \A c \in CarrierNames : Cardinality(find(restocks, c, 0)) <= 1

(* A call of try_restock for carrier c that creates a task, changes a      *)
(* task's required, delivered or stage, or goes on to close a task         *)
Acts(c) ==
    \E h \in Handlers :
        /\ Verify(h, c)
        /\ \/ restocks' # restocks
           \/ handlers'[h].pc = "write_task"
           \/ handlers'[h].pc = "update_task" /\ handlers'[h].close

(* C5: when a call of try_restock has run to its end (it opened a task,    *)
(* updated one or closed one), a second call on the same market, reserve   *)
(* and allocation creates no task, closes none and changes no task         *)
TryRestockIdempotent ==
    [][\A h \in Handlers, c \in CarrierNames :
          (/\ handlers[h].pc \in {"write_task", "update_task"}
           /\ handlers[h].station = c
           /\ handlers'[h].pc = "idle") => ~(ENABLED Acts(c))']_vars

(* The carrier record try_restock sees when market m has just been stored  *)
(* (m the stored market: a verification)                                   *)
Seen(c, m) ==
    update_depot(carriers[c], carriers[c].system, m, carriers[c].last_update)

(* try_restock runs for carrier c on market m, in handler h *)
Runs(h, c, m) ==
    listener(h, c, carriers[c].system, m, carriers[c].last_update)

(* Carrier c is an active depot and market m sells tritium (no buy order) *)
Tracked(c, m) == carriers[c].active_depot /\ m.tritium /\ m.demand = 0

(* C6: try_restock for an active carrier whose tritium has no demand and   *)
(* that has no open task: with stock <= reserve_tritium the carrier        *)
(* becomes PENDING and exactly one task is added, PENDING, with required = *)
(* initial = allocated_space - stock, delivered 0, no haulers and no end;  *)
(* with stock > reserve_tritium nothing changes                            *)
OpensOneTask ==
    [][/\ \A h \in Handlers, c \in CarrierNames, m \in Markets :
            (Runs(h, c, m) /\ Tracked(c, m) /\ find(restocks, c, 0) = {}) =>
               IF m.stock <= carriers[c].reserve_tritium
               THEN /\ carriers'[c].restock_status = PENDING
                    /\ handlers'[h].pc = "write_task"
                    /\ handlers'[h].required
                          = carriers[c].allocated_space - m.stock
               ELSE /\ carriers' = [carriers EXCEPT ![c] = Seen(c, m)]
                    /\ UNCHANGED <<restocks, handlers>>
       /\ \A h \in Handlers :
            WriteTaskReturn(h) =>
               /\ Len(restocks') = Len(restocks) + 1
               /\ SubSeq(restocks', 1, Len(restocks)) = restocks
               /\ LET task == restocks'[Len(restocks')] IN
                    /\ task.carrier = handlers[h].station
                    /\ task.stage = PENDING
                    /\ task.required = handlers[h].required
                    /\ task.initial = handlers[h].required
                    /\ task.delivered = 0
                    /\ task.haulers = <<>>
                    /\ ~task.ended
      ]_vars

(* C7: with a task open, try_restock on stock >= allocated_space - required *)
(* sets delivered to stock - (allocated_space - required) and keeps        *)
(* required; the call closes the task as COMPLETE (end set, price stored,  *)
(* restock_status cleared) exactly when delivered >= 0.8 * required        *)
TracksDelivery ==
    [][/\ \A h \in Handlers, c \in CarrierNames, m \in Markets :
          \A k \in find(restocks, c, 0) :
            LET gain == m.stock
                          - (carriers[c].allocated_space - restocks[k].required)
            IN (Runs(h, c, m) /\ Tracked(c, m) /\ gain >= 0) =>
                  /\ restocks'[k].delivered = gain
                  /\ restocks'[k].required = restocks[k].required
                  /\ handlers'[h].pc = "update_task"
                  /\ handlers'[h].close
                        <=> 5 * gain >= 4 * restocks[k].required
       /\ \A h \in Handlers :
            UpdateTaskReturn(h) =>
               LET c == handlers[h].station IN
               IF handlers[h].close
               THEN /\ carriers'[c].restock_status = None
                    /\ \E k \in find(restocks, c, 0) :
                         restocks' = [restocks EXCEPT
                             ![k].stage = COMPLETE, ![k].ended = TRUE,
                             ![k].sell_price = carriers[c].market.price]
               ELSE UNCHANGED <<carriers, restocks>>
      ]_vars

(* C8: with a task open, try_restock on stock d below allocated_space -    *)
(* required raises required by d and sets delivered to 0; no task ever     *)
(* has a negative delivered                                                *)
RaisesTarget ==
    [][/\ \A h \in Handlers, c \in CarrierNames, m \in Markets :
          \A k \in find(restocks, c, 0) :
            LET gain == m.stock
                          - (carriers[c].allocated_space - restocks[k].required)
            IN (Runs(h, c, m) /\ Tracked(c, m) /\ gain < 0) =>
                  /\ restocks'[k].required = restocks[k].required - gain
                  /\ restocks'[k].delivered = 0
       /\ \A k \in 1..Len(restocks') : restocks'[k].delivered >= 0
      ]_vars

(* C9: try_restock for a carrier that is not an active depot, lists no     *)
(* tritium or buys tritium creates, updates and closes no task, keeps      *)
(* restock_status and reaches no await, whether a task is open or not      *)
UntrackedNoOp ==
    [][\A h \in Handlers, c \in CarrierNames, m \in Markets :
          (Runs(h, c, m) /\ ~Tracked(c, m)) =>
             /\ carriers' = [carriers EXCEPT ![c] = Seen(c, m)]
             /\ UNCHANGED <<restocks, handlers>>]_vars

(* try_restock has run on a buy order while the carrier's task is open *)
UntrackedWitness ==
    \E c \in CarrierNames :
        /\ carriers[c].market = Buying(1)
        /\ carriers[c].restock_status # None
        /\ find(restocks, c, 0) # {}

Terminal(task) == task.stage \in {COMPLETE, ABORTED}

(* C10: no step changes a task that is COMPLETE or ABORTED: its stage,     *)
(* required, delivered, initial, haulers, end and sell_price stay          *)
TerminalImmutable ==
    [][\A k \in 1..Len(restocks) :
          Terminal(restocks[k]) => restocks'[k] = restocks[k]]_vars

(* A closed task of a carrier whose next task has since been opened and    *)
(* joined by a hauler, the hauler's handler still waiting                  *)
TerminalWitness ==
    \E k \in 1..Len(restocks), j \in 1..Len(restocks) :
        /\ k < j
        /\ Terminal(restocks[k])
        /\ restocks[j].carrier = restocks[k].carrier
        /\ restocks[j].haulers # <<>>
        /\ \E h \in Handlers : handlers[h].pc = "update_stage"

---------------------------------------------------------------------------
(* The haulers of a task without the entries of one user *)
Others(haulers, user) == SelectSeq(haulers, LAMBDA u : u # user)

(* C11: update_hauler on an open task refuses (nothing changes, no await   *)
(* is reached) a join of a user already in haulers and a leave of a user   *)
(* not in haulers; otherwise a join appends the user at the end and a      *)
(* leave takes the user out of haulers, the other haulers keeping their    *)
(* order                                                                   *)
UpdateHauler ==
    [][\A h \in Handlers, c \in CarrierNames, u \in Volunteers, a \in BOOLEAN :
         SlashHauler(h, c, u, a) =>
           \A m \in find(restocks, c, 0) :
             LET before == restocks[m].haulers
                 after == restocks'[m].haulers
             IN IF a = contains(before, u)
                THEN restocks' = restocks /\ handlers' = handlers
                ELSE IF a
                THEN after = Append(before, u)
                ELSE /\ ~contains(after, u)
                     /\ Others(after, u) = Others(before, u)]_vars

GetState ==
    \A callsign \in Callsigns :
      get_state(callsign) =
        {IF \A i \in 1..Len(data) : data[i].carrier # callsign
         THEN UNLISTED
         ELSE IF \E i \in 1..Len(data) : /\ data[i].carrier = callsign
                                         /\ data[i].access_token = NoToken
         THEN EXPIRED ELSE SYNCING}

GetStateWitness ==
    /\ result.error = "EpicFail"
    /\ get_state("ABC-123") = {EXPIRED}
    /\ get_state("EXT-002") = {SYNCING}
    /\ now > 0

(* A step in which get_token returns or raises *)
GetTokenEnds(k) ==
    /\ calls'[k].pc = "idle"
    /\ \/ calls[k].op = "get_token"
       \/ \E commander \in Accounts : get_token(k, commander)

(* C14: get_token never raises and never returns a token whose expiry has  *)
(* passed; when the refresh it made failed, it returns null                *)
GetTokenNeverRaises ==
    [][\A k \in 1..MaxCalls :
         GetTokenEnds(k) =>
           /\ result'.op = "get_token"
           /\ result'.outcome \in {"none", "token"}
           /\ result'.outcome = "token" => result'.token[2] >= now
           /\ (\E outcome \in TokenOutcomes \ {"ok"}, token \in Tokens :
                 refresh_token(k, outcome, token))
              => result'.outcome = "none"]_vars

(* C15: after a failed refresh of an account's token, and after the        *)
(* upstream rejected the token on a query, the account has no access       *)
(* token, so its carrier is EXPIRED; no entry leaves the registry          *)
FailureExpires ==
    [][\A k \in 1..MaxCalls :
         LET i == calls[k].info IN
         /\ (\/ \E outcome \in TokenOutcomes \ {"ok"}, token \in Tokens :
                  refresh_token(k, outcome, token)
             \/ QueryReturn(k, "TokenFail"))
            => /\ data'[i].access_token = NoToken
               /\ \A j \in 1..Len(data') :
                    data[i].carrier # None /\ data'[j].carrier = data[i].carrier
                      => data'[j].access_token = NoToken
         /\ Len(data') >= Len(data)
         /\ \A j \in 1..Len(data) :
              data'[j].customer_id = data[j].customer_id]_vars

(* The registry holds the values an authorisation fetched, in the one      *)
(* entry of the account                                                    *)
Stored(fetched) ==
    /\ \E i \in 1..Len(data') : data'[i] = fetched
    /\ find_account(fetched.customer_id) # {} => Len(data') = Len(data)

(* C16: after every authorisation, also of an account whose other          *)
(* authorisation is suspended, the registry holds one entry per            *)
(* customer_id, and the entry of the account carries the auth_type,        *)
(* commander, carrier, discord_id, access_token and refresh_token that     *)
(* this authorisation fetched                                              *)
OneEntryPerAccount ==
    [][/\ \A i, j \in 1..Len(data') :
            i # j => data'[i].customer_id # data'[j].customer_id
       /\ \A k \in 1..MaxCalls :
            /\ SyncReturn(k) => Stored(calls[k].fetched)
            /\ \A auth_type \in AuthTypes, owns \in BOOLEAN :
                 ProfileReturn(k, "ok", auth_type, owns) /\ ~(owns /\ calls[k].sync)
                   => Stored([calls[k].fetched EXCEPT
                                 !.auth_type = auth_type,
                                 !.commander = calls[k].fetched.customer_id,
                                 !.carrier =
                                    IF owns THEN Fleet(calls[k].fetched.customer_id)
                                    ELSE None])]_vars

OneEntryPerAccountWitness ==
    /\ Len(data) = 1
    /\ data[1].discord_id = 1
    /\ data[1].carrier = None
    /\ \A k \in 1..MaxCalls :
         /\ calls[k].pc \in {"profile", "sync"}
         /\ calls[k].fetched.customer_id = data[1].customer_id
         /\ calls[k].fetched.discord_id = 2

(* C17: when the token endpoint answers the code exchange with a failure,  *)
(* auth_account returns false, raises nothing, fires no sync and leaves    *)
(* the registry as it was                                                  *)
CodeExchangeFails ==
    [][\A k \in 1..MaxCalls, outcome \in TokenOutcomes \ {"ok"},
         account \in Accounts, token \in Tokens :
         NewTokensReturn(k, outcome, account, token) =>
           /\ result'.op = "auth_account"
           /\ result'.outcome = "false"
           /\ UNCHANGED <<data, cache, depot_vars>>]_vars

(* The worker issues a poll: _next_target returned the carrier slept for *)
PollIssued == worker.pc = "sleep" /\ worker'.pc = "poll"

PollsAfterInterval ==
    [][PollIssued => now >= last_update(worker.target) + Interval]_vars

(* C20: while the polls of ABC-123 keep failing with failures of its own   *)
(* account and EXT-002 is SYNCING with calls that succeed, a poll of       *)
(* EXT-002 is eventually issued                                            *)
OthersNotStalled ==
    <>(worker.pc = "poll" /\ worker.target = "EXT-002")

(* A step in which the poll of the worker fails on the token: the refresh  *)
(* is answered with a failure or the query rejects the token               *)
PollTokenFailure ==
    \/ \E outcome \in TokenOutcomes \ {"ok"}, token \in Tokens :
         refresh_token(0, outcome, token)
    \/ QueryReturn(0, "TokenFail")

(* C21: after a poll of a carrier failed with a refresh or token failure   *)
(* the carrier is EXPIRED, and the next selection of the worker takes a    *)
(* carrier that is SYNCING, so not this one                                *)
FailedPollExpires ==
    [][/\ PollTokenFailure =>
            \A i \in 1..Len(data') :
               data'[i].carrier = worker.target
                 => data'[i].access_token = NoToken
       /\ WorkerContinue /\ worker'.target # None =>
            get_state(worker'.target) = {SYNCING}]_vars

(* C22: the worker clears active_depot of an internal carrier, or drops    *)
(* the cache entry of an external one, only in the step in which the       *)
(* fleet-carrier endpoint answered its poll with an empty payload          *)
DisablesOnlyOnEmpty ==
    [][(\/ \E c \in CarrierNames :
             carriers[c].active_depot /\ ~carriers'[c].active_depot
        \/ \E c \in Callsigns :
             cache[c] # NoCache /\ cache'[c] = NoCache)
       => QueryReturn(0, "empty")]_vars

EpicFailSkips ==
    [][QueryReturn(0, "EpicFail") =>
         /\ UNCHANGED <<carriers, bridges, restocks, cache>>
         /\ Len(data') = Len(data)
         /\ \A j \in 1..Len(data) :
              /\ data'[j].carrier = data[j].carrier
              /\ j # calls[0].info => data'[j] = data[j]
         /\ worker'.pc = "delay"]_vars

EpicFailSkipsWitness ==
    /\ worker.pc = "delay"
    /\ worker.target = "ABC-123"
    /\ get_state("ABC-123") = {EXPIRED}
    /\ carriers["ABC-123"].active_depot

(* C25: start with a running task changes nothing; close ends the running  *)
(* task together with the call it awaits, and close without a running task *)
(* changes nothing; at most one worker task runs the poll loop             *)
SingleWorkerTask ==
    [][/\ worker'.tasks <= 1
       /\ start /\ Running => UNCHANGED vars
       /\ close /\ Running =>
            /\ ~Running'
            /\ worker'.tasks = 0
            /\ calls'[0].pc = "idle"
       /\ close /\ ~Running => UNCHANGED vars]_vars

SingleWorkerTaskWitness ==
    /\ worker.pc = "stopped"
    /\ worker.tasks = 0
    /\ now = MaxClock
    /\ cache["EXT-002"] = 2
    /\ \E i \in 1..Len(data) : data[i].access_token # <<1, 1>>

Synced(c) ==
    \/ worker.target = c /\ QueryReturn(0, "ok")
    \/ \E k \in 1..MaxCalls, auth_type \in AuthTypes :
         /\ calls[k].sync
         /\ Fleet(calls[k].fetched.customer_id) = c
         /\ ProfileReturn(k, "ok", auth_type, TRUE)

(* C27: after a successful poll or manual sync of an internal carrier, the *)
(* carrier holds the polled market with the time of the poll as its        *)
(* last_update, whatever its last_update was, and try_restock has run on   *)
(* the carrier with the new market                                         *)
CapiDataApplied ==
    [][\A c \in CarrierNames, market \in PolledMarkets :
         Synced(c) /\ sync_carrier(c, market) =>
           /\ Holds(carriers'[c], carriers[c].system, market, now)
           /\ \E h \in Handlers :
                try_restock(h, c, update_depot(carriers[c], carriers[c].system,
                                               market, now))]_vars

(* A good that fails a sanity check: bought or sold at price zero, bought  *)
(* by a carrier that states no demand, bought and sold by a carrier, or    *)
(* neither bought nor sold                                                 *)
Fails(good, carrier) ==
    \/ good.demand.quantity > 0 /\ good.demand.price = 0
    \/ good.stock.quantity > 0 /\ good.stock.price = 0
    \/ carrier /\ good.demand.price > 0 /\ good.demand.quantity = 0
    \/ /\ carrier
       /\ good.demand.quantity + good.demand.price > 0
       /\ good.stock.quantity + good.stock.price > 0
    \/ good.demand.quantity + good.demand.price
         + good.stock.quantity + good.stock.price = 0

(* C28: when a good of a snapshot other than pesticides fails a sanity     *)
(* check, the task of the message ends without firing the commodity        *)
(* event: no depot and no restock task changes and nothing is started      *)
RejectsWholeSnapshot ==
    [][\A h \in Handlers :
         /\ handlers[h].pc = "commodity"
         /\ handlers'[h].pc # "commodity"
         /\ \E i \in 1..Len(handlers[h].goods) :
              /\ handlers[h].goods[i].name # "pesticides"
              /\ Fails(handlers[h].goods[i], is_carrier(handlers[h].station))
         => /\ UNCHANGED <<carriers, bridges, restocks>>
            /\ handlers'[h] = IdleHandler]_vars

RejectsWholeSnapshotWitness ==
    /\ carriers["ABC-123"].market = Buying(1)
    /\ \E h \in Handlers :
         /\ handlers[h].pc = "commodity"
         /\ handlers[h].station = "ABC-123"
         /\ Len(handlers[h].goods) = 2
         /\ depot_market(handlers[h].goods) = Selling(1, 1)
         /\ validation(handlers[h].goods, TRUE) # <<>>

(* C29: a pass over the depots goes on after every overview, whatever it   *)
(* returned or raised, with the next depot, and after the last depot with  *)
(* the flush of the stores; it flushes once, after the last depot, and     *)
(* ends only after the flush                                               *)
PassSkipsFailures ==
    [][\A h \in Handlers :
         /\ handlers[h].pc = "overview" /\ handlers'[h] # handlers[h] =>
              IF handlers[h].depot < Len(depots)
              THEN /\ handlers'[h].pc = "overview"
                   /\ handlers'[h].depot = handlers[h].depot + 1
              ELSE handlers'[h].pc = "flush"
         /\ handlers[h].pc = "flush" =>
              handlers'[h].pc \in {"flush", "idle"}]_vars

(* The cells of a fetched row, the cells it lacks being blank *)
cells(row) ==
    [i \in 1..Len(headers) |-> IF i <= Len(row) THEN row[i] ELSE Blank]

(* The accounts of the rows that pass the validation, in their order *)
RECURSIVE valid_entities(_)
valid_entities(rows) ==
    IF rows = <<>> THEN <<>>
    ELSE (IF load_row(cells(Head(rows))).raised = ""
          THEN <<load_row(cells(Head(rows))).info>> ELSE <<>>)
         \o valid_entities(Tail(rows))

(* C30: loading rows of which exactly one fails the validation of its      *)
(* cells returns the accounts of all the other rows, those before and      *)
(* those after it, and raises nothing                                      *)
InvalidRowIsolated ==
    [][\A h \in Handlers :
         /\ handlers[h].pc = "pull"
         /\ handlers'[h].pc = "idle"
         /\ Len(valid_entities(handlers[h].rows)) = Len(handlers[h].rows) - 1
         => /\ result'.outcome = "return"
            /\ data' = valid_entities(handlers[h].rows)]_vars

(* The order of a reported good: its sell order, or else its buy order *)
order(good) == IF good.stock.bracket # NoBracket THEN good.stock ELSE good.demand

Uploading == {h \in Handlers : handlers[h].pc = "upload"}

(* C31: the bracket of a reported order is 0 for no tonnage, 1 below a     *)
(* quarter of the capacity of 25000, 2 from a quarter to below three       *)
(* quarters, 3 from three quarters on; it is one of these four values,     *)
(* never smaller for the larger of two tonnages, and the same for the same *)
(* tonnage whatever the price and the side of the order                    *)
BracketOfQuantity ==
    /\ \A h \in Uploading :
         LET quantity == order(handlers[h].goods[1]).quantity
             bracket == order(handlers[h].goods[1]).bracket
         IN  /\ bracket \in 0..3
             /\ bracket = 0 <=> quantity <= 0
             /\ bracket = 1 <=> quantity > 0 /\ 4 * quantity < 25000
             /\ bracket = 2 <=> 4 * quantity >= 25000 /\ 4 * quantity < 75000
             /\ bracket = 3 <=> 4 * quantity >= 75000
    /\ \A h, k \in Uploading :
         order(handlers[h].goods[1]).quantity
           <= order(handlers[k].goods[1]).quantity
         => order(handlers[h].goods[1]).bracket
              <= order(handlers[k].goods[1]).bracket

BracketOfQuantityWitness ==
    /\ Uploading = {1, 2}
    /\ handlers[1].goods[1].stock.quantity = 18750
    /\ handlers[1].goods[1].stock.bracket = 3
    /\ handlers[2].goods[1].demand.quantity = 6249
    /\ handlers[2].goods[1].demand.bracket = 1

(* C32: the worker leaves a request for a sleep of at least 5 seconds (or  *)
(* ends), whatever the outcome; it issues a request only out of the sleep  *)
(* of _next_target, which it enters only after that sleep; with no         *)
(* candidate it issues no request and sleeps a full interval, during       *)
(* which it does nothing                                                   *)
SleepsBetweenRequests ==
    [][/\ worker.pc = "poll" /\ worker' # worker
          => \/ worker'.pc = "dead"
             \/ worker'.pc \in {"delay", "interval"} /\ worker'.wait >= 5
       /\ worker'.pc = "poll" /\ worker.pc # "poll" => worker.pc = "sleep"
       /\ worker'.pc = "sleep" /\ worker.pc # "sleep"
          => /\ worker.pc \in {"delay", "interval"}
             /\ worker.wait >= 5 \/ worker = IdleWorker
       /\ worker.pc \in {"delay", "interval"} /\ worker' # worker
            /\ candidates = {}
          => /\ worker'.pc = "interval"
             /\ worker'.wait = Interval * 3600
             /\ worker'.wake = now + Interval
             /\ calls'[0] = IdleCall
       /\ worker.pc = "interval" /\ now < worker.wake
          => worker' = worker /\ calls'[0] = IdleCall]_vars

SleepsBetweenRequestsWitness ==
    /\ worker.pc = "interval"
    /\ candidates = {}
    /\ worker.wait = Interval * 3600
    /\ worker.delays[1] = 2

(* C33: the delay after a connection error is 5 * 4^n seconds for the n-th *)
(* connection error in a row (n = 0 for the first, and again for one that  *)
(* comes more than an hour after the delay of the last one ended), at most *)
(* 10800 seconds; a poll that succeeds leaves the retry counter as it was  *)
RetryDelays ==
    [][/\ worker.pc = "poll" /\ worker'.failures # worker.failures
          => /\ worker'.wait = IF 5 * 4^consecutive < 10800
                               THEN 5 * 4^consecutive ELSE 10800
             /\ worker'.wait <= 10800
       /\ QueryReturn(0, "ok") => worker'.delays = worker.delays]_vars

(* C34: after a poll that fails with CapiFail the worker waits the delay   *)
(* that a connection error would get at that point, and no token, no       *)
(* carrier link and no active_depot has changed                            *)
CapiFailRetries ==
    [][QueryReturn(0, "CapiFail")
       => /\ worker'.wait = retry_delay.wait
          /\ \A i \in DOMAIN data :
               /\ data'[i].access_token = data[i].access_token
               /\ data'[i].refresh_token = data[i].refresh_token
               /\ data'[i].carrier = data[i].carrier
          /\ \A c \in CarrierNames :
               carriers'[c].active_depot = carriers[c].active_depot]_vars

(* C35: whatever ends a poll (a result, a connection error, EpicFail,      *)
(* CapiFail, RefreshFail or the TokenFail of an HTTP 401), the worker task *)
(* is still running afterwards, asleep before its next selection           *)
FailureKeepsWorker ==
    [][worker.pc = "poll" /\ worker' # worker
       => /\ worker'.pc \in {"delay", "interval"}
          /\ worker'.tasks = worker.tasks]_vars

(* C36: no user is twice in the haulers of a task *)
NoDuplicateHaulers ==
    \A m \in DOMAIN restocks :
      \A i, j \in DOMAIN restocks[m].haulers :
        i # j => restocks[m].haulers[i] # restocks[m].haulers[j]

(* C37: when try_restock goes past its tests with a restock_status that is *)
(* not None (active depot, tritium listed, no buy order), the registry     *)
(* holds an open task of the carrier: `assert restock` does not fail       *)
TryRestockAssertion ==
    [][\A h \in Handlers, c \in CarrierNames :
         /\ Free(h)
         /\ carriers'[c].restock_status # None
         /\ carriers'[c].active_depot
         /\ tritium(carriers'[c])
         /\ carriers'[c].market.demand = 0
         /\ evaluate(h, c, carriers'[c])
         /\ UNCHANGED bridges
         => find(restocks, c, 0) # {}]_vars

(* C38: a carrier's restock_status is None, PENDING or UNDERWAY in every   *)
(* state, and None once a task of the carrier was closed and every hauler  *)
(* update that was under way has finished                                  *)
RestockStatusOpenOrNone ==
    \A c \in CarrierNames :
      /\ carriers[c].restock_status \in {None, PENDING, UNDERWAY}
      /\ Quiescent /\ find(restocks, c, 0) = {}
         /\ (\E m \in DOMAIN restocks :
               restocks[m].carrier = c /\ restocks[m].ended)
         => carriers[c].restock_status = None

(* C39: a close_restock that fails, for lack of an open task of the        *)
(* carrier or of a tritium listing in its market, leaves the carrier's     *)
(* restock_status and every task as they were                              *)
FailedCloseChangesNothing ==
    [][\A c \in CarrierNames :
         /\ \/ \E abort \in BOOLEAN : SlashClose(c, abort)
            \/ \E h \in Handlers :
                 /\ UpdateTaskReturn(h)
                 /\ handlers[h].close
                 /\ handlers[h].station = c
         /\ ~tritium(carriers[c]) \/ find(restocks, c, 0) = {}
         => /\ carriers'[c].restock_status = carriers[c].restock_status
            /\ restocks' = restocks]_vars

(* C40: the initial of a task is never changed, its required never gets    *)
(* smaller, and required is at least initial, whatever market updates and  *)
(* edits of the allocated space come while the task exists                 *)
RequiredOnlyGrows ==
    [][\A m \in DOMAIN restocks' :
         /\ restocks'[m].required >= restocks'[m].initial
         /\ m \in DOMAIN restocks
            => /\ restocks'[m].initial = restocks[m].initial
               /\ restocks'[m].required >= restocks[m].required]_vars

RequiredOnlyGrowsWitness ==
    \E m \in find(restocks, "", 0) :
      /\ restocks[m].required > restocks[m].initial
      /\ carriers[restocks[m].carrier].allocated_space = Capacity + 1
      /\ \E h \in Handlers : handlers[h].pc = "update_task"
====
